---- MODULE Spec2Model ----
(***************************************************************************)
(* A model of the OmniASR backend: the LRU+TTL result cache, its           *)
(* transcription wrapper and the language cache (backend/cache.py), the    *)
(* metrics collector (backend/monitoring.py), and the authentication,      *)
(* validation and transcription orchestration of backend/omni_modal.py.    *)
(***************************************************************************)
EXTENDS Integers, Sequences, FiniteSets, TLC

(***************************************************************************)
(* Bounds of the model.                                                    *)
(***************************************************************************)
\* the largest max_size an LRUCache is constructed with
MaxSize == 2
\* the last instant of the clock (time.time(), in whole ticks)
MaxTime == 2
\* the largest number of get calls counted between two clears
MaxCount == 2

(***************************************************************************)
(* Values of the cache.                                                    *)
(***************************************************************************)
\* uploaded byte strings
AudioBytes == {"A", "B"}

\* hashlib.sha256(audio_bytes).hexdigest(), its first eight digits
Sha256Hex(audio_bytes) ==
    CASE audio_bytes = "" -> "e3b0c442"
      [] audio_bytes = "A" -> "559aead0"
      [] audio_bytes = "B" -> "df7e70e5"
      [] audio_bytes = "T" -> "e632b709"
      [] audio_bytes = "huge" -> "5e580eee"

\* a variant of _generate_key that leaves the mode out of the key
GenerateKeyWithoutMode(audio_bytes, language, mode) ==
    language \o ":" \o Sha256Hex(audio_bytes)

\* TranscriptionCache._generate_key
GenerateKey(audio_bytes, language, mode) ==
    mode \o ":" \o language \o ":" \o Sha256Hex(audio_bytes)

\* the (audio_bytes, language, mode) requests of the model
Triples ==
    { <<"A", "eng_Latn", "standard">>,
      <<"B", "eng_Latn", "standard">>,
      <<"A", "eng_Latn", "large">> }

CacheKeys == { GenerateKey(t[1], t[2], t[3]) : t \in Triples }

\* cached results
Results == {"r1", "r2"}

\* Python's None, as returned by get
None == "None"
\* no key (nothing evicted)
NoKey == "-"
\* no entry of a key
NoEntry == [value |-> None, ts |-> -1]

\* the ttl values an LRUCache is constructed with
Ttls == {1}

\* the request handlers that share one cache (modal.concurrent)
Threads == {"t1", "t2"}

VARIABLES
    cache,      \* LRUCache.cache: the OrderedDict, oldest first, of [key, value, ts]
    max_size,   \* LRUCache.max_size
    ttl,        \* LRUCache.ttl
    hits,       \* LRUCache.hits
    misses,     \* LRUCache.misses
    now,        \* time.time()
    ret,        \* the last call on the cache and what it returned
    recency,    \* history: the stored keys, least recently touched first
    live        \* history: per key, the value and time of the last completed set
                \* that no later delete, clear or eviction has removed

cacheVars == <<cache, max_size, ttl, hits, misses, now, ret, recency, live>>

VARIABLES
    th,         \* per handler thread: its call, its position in it, its locals
    cache0      \* history: the cache when the concurrent calls began

concVars == <<th, cache0>>

VARIABLES
    asrCall,    \* the last call of OmniASRModel.transcribe / transcribe_large:
                \* the method, its arguments and what the libraries did in it
    asrOut      \* what that call returned or raised, and what it left behind

asrVars == <<asrCall, asrOut>>

VARIABLES
    resp,       \* the last request to /transcribe or /transcribe_large and the
                \* response it got
    served,     \* history: the (audio, language, mode) answered with a result
    requests    \* history: the number of requests answered

apiVars == <<resp, served, requests>>

VARIABLES
    fn,           \* the function acquiring the models: load_model or download_model
    load_pc,      \* where it is: loading the pipeline, trying the VAD, or ended
    attempt,      \* the loop variable of its retry loop
    retry_delay,  \* its retry_delay
    slept,        \* history: the seconds of each time.sleep, in order
    errors,       \* history: the messages of the errors torch.hub.load raised
    model_loaded  \* self.model_loaded

loadVars == <<fn, load_pc, attempt, retry_delay, slept, errors, model_loaded>>

VARIABLES
    API_KEYS,   \* the module's API_KEYS, built from the environment at import
    auth        \* the last call of verify_api_key: its header and its outcome

authVars == <<API_KEYS, auth>>

VARIABLES
    metrics,    \* MetricsCollector.metrics: per kind, its records, oldest first
    counters,   \* MetricsCollector.counters
    mcall,      \* the last call on the collector and what it returned
    mth         \* per handler thread inside a record_* call: the call, its
                \* position in it and the counter value it has read

metricsVars == <<metrics, counters, mcall, mth>>

VARIABLES
    language_cache, \* the LanguageCache: languages, timestamp and ttl
    lcall           \* the last call on it and what it returned

langVars == <<language_cache, lcall>>

VARIABLES
    lookup      \* a set and a later get on a TranscriptionCache of its own: the
                \* two requests, the position, the LRUCache dict, the value got

keyVars == <<lookup>>

otherVars == <<authVars, metricsVars, langVars, keyVars>>

vars == <<cacheVars, concVars, asrVars, apiVars, loadVars, otherVars>>

(***************************************************************************)
(* OrderedDict operations.                                                 *)
(***************************************************************************)
KeysOf(c) == { c[i].key : i \in DOMAIN c }

IndexOf(c, k) == CHOOSE i \in DOMAIN c : c[i].key = k

\* del d[k]
DelKey(c, k) == SelectSeq(c, LAMBDA e : e.key # k)

\* d.move_to_end(k)
MoveToEnd(c, k) == Append(DelKey(c, k), c[IndexOf(c, k)])

\* d[k] = (v, t): a stored key keeps its place, a new key goes last
StoreKey(c, k, v, t) ==
    IF k \in KeysOf(c)
    THEN [i \in DOMAIN c |->
            IF c[i].key = k THEN [key |-> k, value |-> v, ts |-> t] ELSE c[i]]
    ELSE Append(c, [key |-> k, value |-> v, ts |-> t])

\* a sequence of keys without k
Without(s, k) == SelectSeq(s, LAMBDA x : x # k)

(***************************************************************************)
(* LRUCache.                                                               *)
(***************************************************************************)
\* a variant of _is_expired that expires an entry at age ttl already
IsExpiredAtTtl(timestamp, t, ttl_) == t - timestamp >= ttl_

\* LRUCache._is_expired at time t
IsExpired(timestamp, t, ttl_) == t - timestamp > ttl_

\* a variant of get whose hit leaves the entry where it is (no move_to_end)
GetResultInPlace(c, k, t, ttl_) ==
    IF k \notin KeysOf(c)
    THEN [cache |-> c, value |-> None, hit |-> FALSE, expired |-> FALSE]
    ELSE LET e == c[IndexOf(c, k)]
         IN  IF IsExpired(e.ts, t, ttl_)
             THEN [cache |-> DelKey(c, k), value |-> None, hit |-> FALSE,
                   expired |-> TRUE]
             ELSE [cache |-> c, value |-> e.value, hit |-> TRUE,
                   expired |-> FALSE]

\* a variant of get whose hit stores the entry again with the time of the get
GetResultRefreshing(c, k, t, ttl_) ==
    IF k \notin KeysOf(c)
    THEN [cache |-> c, value |-> None, hit |-> FALSE, expired |-> FALSE]
    ELSE LET e == c[IndexOf(c, k)]
         IN  IF IsExpired(e.ts, t, ttl_)
             THEN [cache |-> DelKey(c, k), value |-> None, hit |-> FALSE,
                   expired |-> TRUE]
             ELSE [cache |-> StoreKey(MoveToEnd(c, k), k, e.value, t),
                   value |-> e.value, hit |-> TRUE, expired |-> FALSE]

\* a variant of get that answers an expired entry with a miss and keeps it
GetResultKeepingExpired(c, k, t, ttl_) ==
    IF k \notin KeysOf(c)
    THEN [cache |-> c, value |-> None, hit |-> FALSE, expired |-> FALSE]
    ELSE LET e == c[IndexOf(c, k)]
         IN  IF IsExpired(e.ts, t, ttl_)
             THEN [cache |-> c, value |-> None, hit |-> FALSE,
                   expired |-> FALSE]
             ELSE [cache |-> MoveToEnd(c, k), value |-> e.value, hit |-> TRUE,
                   expired |-> FALSE]

\* a variant of get that first sweeps every expired entry out of the dict
GetResultSweeping(c, k, t, ttl_) ==
    LET swept == SelectSeq(c, LAMBDA e : e.key = k \/ ~IsExpired(e.ts, t, ttl_))
    IN  IF k \notin KeysOf(swept)
        THEN [cache |-> swept, value |-> None, hit |-> FALSE, expired |-> FALSE]
        ELSE LET e == swept[IndexOf(swept, k)]
             IN  IF IsExpired(e.ts, t, ttl_)
                 THEN [cache |-> DelKey(swept, k), value |-> None, hit |-> FALSE,
                       expired |-> TRUE]
                 ELSE [cache |-> MoveToEnd(swept, k), value |-> e.value,
                       hit |-> TRUE, expired |-> FALSE]

\* LRUCache.get: the new dict, the value returned, and whether it was a hit
GetResult(c, k, t, ttl_) ==
    IF k \notin KeysOf(c)
    THEN [cache |-> c, value |-> None, hit |-> FALSE, expired |-> FALSE]
    ELSE LET e == c[IndexOf(c, k)]
         IN  IF IsExpired(e.ts, t, ttl_)
             THEN [cache |-> DelKey(c, k), value |-> None, hit |-> FALSE,
                   expired |-> TRUE]
             ELSE [cache |-> MoveToEnd(c, k), value |-> e.value, hit |-> TRUE,
                   expired |-> FALSE]

\* a variant of set that evicts only above max_size (> for >=)
SetResultLateEviction(c, k, v, t, m) ==
    IF k \in KeysOf(c)
    THEN [cache |-> StoreKey(MoveToEnd(c, k), k, v, t), evicted |-> NoKey,
          raised |-> FALSE]
    ELSE IF Len(c) > m
         THEN [cache |-> StoreKey(Tail(c), k, v, t),
               evicted |-> Head(c).key, raised |-> FALSE]
         ELSE [cache |-> StoreKey(c, k, v, t), evicted |-> NoKey,
               raised |-> FALSE]

\* a variant of set that makes room on a full dict before it looks for the key
SetResultEvictingWhenFull(c, k, v, t, m) ==
    IF Len(c) >= m
    THEN IF c = << >>
         THEN [cache |-> c, evicted |-> NoKey, raised |-> TRUE]
         ELSE [cache |-> StoreKey(IF k \in KeysOf(Tail(c))
                                  THEN MoveToEnd(Tail(c), k) ELSE Tail(c), k, v, t),
               evicted |-> Head(c).key, raised |-> FALSE]
    ELSE [cache |-> StoreKey(IF k \in KeysOf(c) THEN MoveToEnd(c, k) ELSE c, k, v, t),
          evicted |-> NoKey, raised |-> FALSE]

\* LRUCache.set: the new dict, the key evicted, and whether the call raised
\* (next(iter(...)) of an empty dict raises StopIteration)
SetResult(c, k, v, t, m) ==
    IF k \in KeysOf(c)
    THEN [cache |-> StoreKey(MoveToEnd(c, k), k, v, t), evicted |-> NoKey,
          raised |-> FALSE]
    ELSE IF Len(c) >= m
         THEN IF c = << >>
              THEN [cache |-> c, evicted |-> NoKey, raised |-> TRUE]
              ELSE [cache |-> StoreKey(Tail(c), k, v, t),
                    evicted |-> Head(c).key, raised |-> FALSE]
         ELSE [cache |-> StoreKey(c, k, v, t), evicted |-> NoKey,
               raised |-> FALSE]

\* LRUCache.delete
DeleteResult(c, k) == IF k \in KeysOf(c) THEN DelKey(c, k) ELSE c

\* what a call leaves in ret
Call(op, k, v, hit, evicted, raised) ==
    [op |-> op, key |-> k, value |-> v, hit |-> hit,
     evicted |-> evicted, raised |-> raised]

NoCall == Call("-", NoKey, None, FALSE, NoKey, FALSE)

\* a handler thread outside any call
IdleThread ==
    [pc |-> "idle", op |-> "-", key |-> NoKey, arg |-> None, len |-> 0,
     oldest |-> NoKey, value |-> None, ts |-> -1, result |-> None, raised |-> FALSE]

\* LRUCache.__init__ (TranscriptionCache.__init__ builds one the same way)
CacheInit ==
    /\ cache = << >>
    /\ max_size \in 0..MaxSize
    /\ ttl \in Ttls
    /\ hits = 0
    /\ misses = 0
    /\ now = 0
    /\ ret = NoCall
    /\ recency = << >>
    /\ live = [k \in CacheKeys |-> NoEntry]

\* LRUCache.get
Get(k) ==
    LET r == GetResult(cache, k, now, ttl)
    IN  /\ hits + misses < MaxCount
        /\ cache' = r.cache
        /\ hits' = IF r.hit THEN hits + 1 ELSE hits
        /\ misses' = IF r.hit THEN misses ELSE misses + 1
        /\ ret' = Call("get", k, r.value, r.hit, NoKey, FALSE)
        /\ recency' = IF r.hit THEN Append(Without(recency, k), k)
                      ELSE IF r.expired THEN Without(recency, k)
                      ELSE recency
        /\ UNCHANGED <<max_size, ttl, now, live, concVars, asrVars, apiVars, loadVars, otherVars>>

\* what a set() call did: the call record, with the value passed and what the
\* key held before the call ("nothing", a "fresh" entry or an "expired" one)
Stored(k, v, evicted, raised, replaced) ==
    [op |-> "set", key |-> k, value |-> None, hit |-> FALSE, evicted |-> evicted,
     raised |-> raised, stored |-> v, replaced |-> replaced]

\* LRUCache.set
Set(k, v) ==
    LET r == SetResult(cache, k, v, now, max_size)
    IN  /\ cache' = r.cache
        /\ ret' = Stored(k, v, r.evicted, r.raised,
                         IF k \notin KeysOf(cache) THEN "nothing"
                         ELSE IF IsExpired(cache[IndexOf(cache, k)].ts, now, ttl)
                              THEN "expired" ELSE "fresh")
        /\ recency' = IF r.raised THEN recency
                      ELSE Append(Without(Without(recency, r.evicted), k), k)
        /\ live' = IF r.raised THEN live
                   ELSE [j \in CacheKeys |->
                           IF j = k THEN [value |-> v, ts |-> now]
                           ELSE IF j = r.evicted THEN NoEntry
                           ELSE live[j]]
        /\ UNCHANGED <<max_size, ttl, hits, misses, now, concVars, asrVars, apiVars, loadVars, otherVars>>

\* LRUCache.delete
Delete(k) ==
    /\ cache' = DeleteResult(cache, k)
    /\ ret' = Call("delete", k, None, FALSE, NoKey, FALSE)
    /\ recency' = Without(recency, k)
    /\ live' = [live EXCEPT ![k] = NoEntry]
    /\ UNCHANGED <<max_size, ttl, hits, misses, now, concVars, asrVars, apiVars, loadVars, otherVars>>

\* what a clear() call did: the call record, with the number of entries and
\* of counted gets it wiped
Cleared(entries, counted) ==
    [op |-> "clear", key |-> NoKey, value |-> None, hit |-> FALSE,
     evicted |-> NoKey, raised |-> FALSE, entries |-> entries, counted |-> counted]

\* a variant of clear that empties the dict and leaves the counters alone
ClearKeepingCounters ==
    /\ cache' = << >>
    /\ ret' = Cleared(Len(cache), hits + misses)
    /\ recency' = << >>
    /\ live' = [k \in CacheKeys |-> NoEntry]
    /\ UNCHANGED <<max_size, ttl, hits, misses, now, concVars, asrVars, apiVars, loadVars, otherVars>>

\* LRUCache.clear (TranscriptionCache.clear delegates to it)
Clear ==
    /\ cache' = << >>
    /\ hits' = 0
    /\ misses' = 0
    /\ ret' = Cleared(Len(cache), hits + misses)
    /\ recency' = << >>
    /\ live' = [k \in CacheKeys |-> NoEntry]
    /\ UNCHANGED <<max_size, ttl, now, concVars, asrVars, apiVars, loadVars, otherVars>>

\* round(hits / total * 100, 2) in hundredths of a percent: the nearest
\* hundredth, a value halfway between two going to the even one
HitRateRounded(hits_, total) ==
    LET q == (hits_ * 10000) \div total
        r == (hits_ * 10000) % total
    IN  IF 2 * r < total THEN q
        ELSE IF 2 * r > total THEN q + 1
        ELSE IF q % 2 = 0 THEN q ELSE q + 1

\* a variant of get_stats whose rate is the share of misses
GetStatsRateOfMisses(c, m, hits_, misses_, ttl_) ==
    LET total_requests == hits_ + misses_
    IN  [size |-> Len(c), max_size |-> m, hits |-> hits_, misses |-> misses_,
         hit_rate |-> IF total_requests > 0
                      THEN HitRateRounded(misses_, total_requests) ELSE 0,
         ttl |-> ttl_]

\* LRUCache.get_stats; hit_rate in hundredths of a percent
GetStatsResult(c, m, hits_, misses_, ttl_) ==
    LET total_requests == hits_ + misses_
    IN  [size |-> Len(c), max_size |-> m, hits |-> hits_, misses |-> misses_,
         hit_rate |-> IF total_requests > 0
                      THEN HitRateRounded(hits_, total_requests) ELSE 0,
         ttl |-> ttl_]

\* LRUCache.get_stats (TranscriptionCache.get_stats delegates to it)
GetStats ==
    /\ ret' = [op |-> "stats", key |-> NoKey, value |-> None, hit |-> FALSE,
               evicted |-> NoKey, raised |-> FALSE,
               stats |-> GetStatsResult(cache, max_size, hits, misses, ttl)]
    /\ UNCHANGED <<cache, max_size, ttl, hits, misses, now, recency, live, concVars, asrVars, apiVars, loadVars, otherVars>>

\* TranscriptionCache.get
TGet(audio_bytes, language, mode) ==
    Get(GenerateKey(audio_bytes, language, mode))

\* TranscriptionCache.set
TSet(audio_bytes, language, mode, result) ==
    Set(GenerateKey(audio_bytes, language, mode), result)

\* the clock advances between two calls
Tick ==
    /\ now < MaxTime
    /\ now' = now + 1
    /\ ret' = NoCall
    /\ UNCHANGED <<cache, max_size, ttl, hits, misses, recency, live, concVars, asrVars, apiVars, loadVars, otherVars>>

\* the calls on the one LRUCache of the TranscriptionCache: get and set through
\* the wrapper, delete, clear and get_stats on the cache itself
CacheNext ==
    \/ \E t \in Triples : TGet(t[1], t[2], t[3])
    \/ \E t \in Triples, v \in Results : TSet(t[1], t[2], t[3], v)
    \/ \E k \in CacheKeys : Delete(k)
    \/ Clear
    \/ GetStats
    \/ Tick

(***************************************************************************)
(* OmniASRModel.transcribe and OmniASRModel.transcribe_large.  Times are   *)
(* kept in milliseconds, sample positions in samples, texts as sequences   *)
(* of characters.                                                          *)
(***************************************************************************)
\* the most VAD spans of one audio
MaxSpans == 3

\* the sampling rate the VAD reads the audio at, and that its spans count in
VadRate == 16000

\* min_speech_duration_ms handed to get_speech_timestamps
MinSpeechMs == 250

\* the language codes of the callers
Languages == {"eng_Latn", "arb_Arab"}

\* decoded uploads: 4 ms, 5 ms and 2.5 s at 16 kHz, 2.5 s at 44.1 kHz
Audios ==
    { [frames |-> 64, samplerate |-> 16000],
      [frames |-> 80, samplerate |-> 16000],
      [frames |-> 40000, samplerate |-> 16000],
      [frames |-> 110250, samplerate |-> 44100] }

\* the length of an audio once read_audio has resampled it to VadRate
VadLength(a) ==
    (a.frames \div a.samplerate) * VadRate
        + ((a.frames % a.samplerate) * VadRate) \div a.samplerate

\* the sample positions a VAD span starts or ends at
SpanPoints == {0, 4000, 8000, 8008, 24000, 40000}

\* the spans get_speech_timestamps can give for audio a: inside the audio and
\* no shorter than min_speech_duration_ms
SpansOf(a) ==
    { ts \in [start : SpanPoints, end : SpanPoints] :
        /\ ts.end <= VadLength(a)
        /\ (ts.end - ts.start) * 1000 >= MinSpeechMs * VadRate }

\* what get_speech_timestamps can return for audio a: spans in temporal order
\* that do not overlap
SpeechTimestamps(a) ==
    { s \in UNION { [1..n -> SpansOf(a)] : n \in 0..MaxSpans } :
        \A i \in 1..(Len(s) - 1) : s[i].end <= s[i + 1].start }

\* the texts the ASR engine answers with
Texts ==
    { << >>, <<" ">>, <<"h", "i">>, <<" ", "b", "y", "e", "\n">> }

\* the seconds the engine took, in microseconds
ProcessTimes == {500, 1234567}

\* str.strip: leading and trailing whitespace removed
IsSpace(ch) == ch \in {" ", "\n", "\t"}

RECURSIVE LStrip(_)
LStrip(text) ==
    IF text # << >> /\ IsSpace(Head(text)) THEN LStrip(Tail(text)) ELSE text

RECURSIVE RStrip(_)
RStrip(text) ==
    IF text # << >> /\ IsSpace(text[Len(text)])
    THEN RStrip(SubSeq(text, 1, Len(text) - 1))
    ELSE text

Strip(text) == RStrip(LStrip(text))

\* "".join(parts)
RECURSIVE JoinEmpty(_)
JoinEmpty(parts) ==
    IF parts = << >> THEN << >> ELSE parts[1] \o JoinEmpty(Tail(parts))

\* " ".join(parts)
RECURSIVE JoinSpace(_)
JoinSpace(parts) ==
    IF parts = << >> THEN << >>
    ELSE IF Len(parts) = 1 THEN parts[1]
    ELSE parts[1] \o <<" ">> \o JoinSpace(Tail(parts))

\* the quotients num/den that lie halfway between two integers and that round()
\* takes upwards: round() works on the double nearest to the value, which for
\* these is the upper neighbour's side (0.005 s at two decimals, 0.0005 s at
\* three); every other halfway value of the model goes down (0.5005 s gives 0.5)
HalfwayUp == { <<8000, 16000>>, <<500000, 1000000>> }

\* the integer round() picks for num/den
RoundHalf(num, den) ==
    LET q == num \div den
        r == num % den
    IN  IF 2 * r < den THEN q
        ELSE IF 2 * r > den THEN q + 1
        ELSE IF <<num, den>> \in HalfwayUp THEN q + 1 ELSE q

\* round(num/den, 3), in milliseconds
Round3(num, den) == RoundHalf(num * 1000, den)

\* round(num/den, 2), in milliseconds
Round2(num, den) == 10 * RoundHalf(num * 100, den)

\* what the libraries do during one call: the decoded audio, whether
\* read_audio, get_speech_timestamps, sf.read, librosa.get_duration and
\* pipeline.transcribe succeed, the spans and texts they give, the chunk (if
\* any, else 0) whose sf.write fails, and the time the engine takes
Env(a, r, v, s, f, w, d, k, t, p) ==
    [audio |-> a, read_ok |-> r, vad_ok |-> v, spans |-> s, sf_ok |-> f,
     write_fail |-> w, dur_ok |-> d, asr_ok |-> k, texts |-> t, ptime |-> p]

\* the calls in which no library fails: the engine answers one text per path
\* it is given (the upload itself when there are no spans)
OkEnvs ==
    UNION { UNION { { Env(a, TRUE, TRUE, s, TRUE, 0, TRUE, TRUE, t, p) :
                        t \in [1..(IF s = << >> THEN 1 ELSE Len(s)) -> Texts],
                        p \in ProcessTimes } :
                    s \in SpeechTimestamps(a) } :
            a \in Audios }

\* the audio and the spans of the calls in which libraries may fail
FailAudio == [frames |-> 40000, samplerate |-> 16000]

FailSpans ==
    { << >>, <<[start |-> 0, end |-> 8000], [start |-> 24000, end |-> 40000]>> }

\* the calls in which any of the libraries may fail
FailEnvs ==
    UNION { { Env(FailAudio, r, v, s, f, w, d, k,
                  [i \in 1..(IF s = << >> THEN 1 ELSE Len(s)) |-> <<"h", "i">>],
                  500) :
                r \in BOOLEAN, v \in BOOLEAN, f \in BOOLEAN, w \in 0..Len(s),
                d \in BOOLEAN, k \in BOOLEAN } :
            s \in FailSpans }

Envs == OkEnvs \cup FailEnvs

\* the calls of transcribe, which never runs the VAD
WholeFileEnvs == { e \in Envs : e.spans = << >> }

\* a result dictionary whose segments_count is the 1 of the whole-file path
ResultOneSegment(transcription, language, processing_time, audio_duration, segments, request_id) ==
    [transcription |-> transcription, language |-> language,
     processing_time |-> processing_time, audio_duration |-> audio_duration,
     segments_count |-> 1, segments |-> segments,
     request_id |-> request_id]

\* the dictionary a successful call returns
Result(transcription, language, processing_time, audio_duration, segments, request_id) ==
    [transcription |-> transcription, language |-> language,
     processing_time |-> processing_time, audio_duration |-> audio_duration,
     segments_count |-> Len(segments), segments |-> segments,
     request_id |-> request_id]

NoResult == Result(<< >>, "-", 0, 0, << >>, "-")

\* how a call ends: kind "ok" with the result, kind "http" with the
\* HTTPException raised, kind "error" with any other exception; the calls made
\* to the VAD and to the ASR engine; the temporary files left on disk; the
\* chunks cut from the audio (chunk_metadata with the slice bounds)
Returned(result, vad_calls, asr_calls) ==
    [kind |-> "ok", status |-> 200, detail |-> "-", result |-> result,
     vad_calls |-> vad_calls, asr_calls |-> asr_calls, files_left |-> 0,
     chunks |-> << >>]

Raised(kind, status, detail, vad_calls, asr_calls, files_left) ==
    [kind |-> kind, status |-> status, detail |-> detail, result |-> NoResult,
     vad_calls |-> vad_calls, asr_calls |-> asr_calls, files_left |-> files_left,
     chunks |-> << >>]

NoOutcome == Raised("-", 0, "-", 0, 0, 0)

\* OmniASRModel.transcribe
TranscribeOutcome(env, language, request_id) ==
    IF ~env.dur_ok THEN Raised("http", 400, "Invalid audio file", 0, 0, 0)
    ELSE IF ~env.asr_ok THEN Raised("http", 500, "Transcription failed", 0, 1, 0)
    ELSE LET duration == Round2(env.audio.frames, env.audio.samplerate)
         IN  Returned([transcription |-> env.texts[1],
                       language |-> language,
                       processing_time |-> Round3(env.ptime, 1000000),
                       audio_duration |-> duration,
                       segments_count |-> 1,
                       segments |-> <<[start |-> 0, end |-> duration,
                                       text |-> env.texts[1]]>>,
                       request_id |-> request_id],
                      0, 1)

\* a chunk loop that cuts the decoded audio at the positions of the VAD's rate
ChunkMetadataUnscaled(spans, samplerate) ==
    [i \in DOMAIN spans |->
        [start |-> spans[i].start, end |-> spans[i].end,
         start_sample |-> spans[i].start, end_sample |-> spans[i].end]]

\* the loop over speech_timestamps: per span its times, as sample positions at
\* VadRate, and the slice of the decoded audio cut for it
ChunkMetadata(spans, samplerate) ==
    [i \in DOMAIN spans |->
        [start |-> spans[i].start, end |-> spans[i].end,
         start_sample |-> (spans[i].start * samplerate) \div VadRate,
         end_sample |-> (spans[i].end * samplerate) \div VadRate]]

\* the segment of chunk i: its stripped text and its own rounded times
Segment(chunk_results, chunk_metadata, i) ==
    [start |-> Round3(chunk_metadata[i].start, VadRate),
     end |-> Round3(chunk_metadata[i].end, VadRate),
     text |-> Strip(chunk_results[i])]

\* the chunks up to i that keep a segment
Kept(chunk_results, i) ==
    { j \in 1..i : Strip(chunk_results[j]) # << >> }

\* a combining loop that takes the times of the next unused chunk
RECURSIVE CombineByPosition(_, _, _)
CombineByPosition(chunk_results, chunk_metadata, i) ==
    IF i > Len(chunk_results) THEN << >>
    ELSE IF Strip(chunk_results[i]) # << >>
         THEN <<[Segment(chunk_results, chunk_metadata,
                         Cardinality(Kept(chunk_results, i)))
                    EXCEPT !.text = Strip(chunk_results[i])]>>
                  \o CombineByPosition(chunk_results, chunk_metadata, i + 1)
         ELSE CombineByPosition(chunk_results, chunk_metadata, i + 1)

\* a combining loop that puts each new segment in front
RECURSIVE CombineNewestFirst(_, _, _)
CombineNewestFirst(chunk_results, chunk_metadata, i) ==
    IF i > Len(chunk_results) THEN << >>
    ELSE IF Strip(chunk_results[i]) # << >>
         THEN CombineNewestFirst(chunk_results, chunk_metadata, i + 1)
                  \o <<Segment(chunk_results, chunk_metadata, i)>>
         ELSE CombineNewestFirst(chunk_results, chunk_metadata, i + 1)

\* the loop over chunk_results, from chunk i on: detailed_segments
RECURSIVE Combine(_, _, _)
Combine(chunk_results, chunk_metadata, i) ==
    IF i > Len(chunk_results) THEN << >>
    ELSE IF Strip(chunk_results[i]) # << >>
         THEN <<Segment(chunk_results, chunk_metadata, i)>>
                  \o Combine(chunk_results, chunk_metadata, i + 1)
         ELSE Combine(chunk_results, chunk_metadata, i + 1)

\* full_text_parts, appended to together with detailed_segments
FullTextParts(detailed_segments) ==
    [j \in DOMAIN detailed_segments |-> detailed_segments[j].text]

\* a fallback that answers with a result without segments
FallbackEmptyResult(env, language, request_id) ==
    IF TranscribeOutcome(env, language, request_id).kind # "ok"
    THEN TranscribeOutcome(env, language, request_id)
    ELSE [TranscribeOutcome(env, language, request_id)
            EXCEPT !.result.transcription = << >>,
                   !.result.segments = << >>,
                   !.result.segments_count = 0]

\* no speech: self.transcribe.local with the arguments of the call
Fallback(env, language, request_id) ==
    TranscribeOutcome(env, language, request_id)

\* OmniASRModel.transcribe_large
TranscribeLargeOutcome(env, language, request_id) ==
    IF ~env.read_ok THEN Raised("http", 400, "Invalid audio file", 0, 0, 0)
    ELSE IF ~env.vad_ok THEN Raised("error", 0, "get_speech_timestamps", 1, 0, 0)
    ELSE IF env.spans = << >>
         THEN [Fallback(env, language, request_id) EXCEPT !.vad_calls = 1]
    ELSE IF ~env.sf_ok THEN Raised("error", 0, "sf.read", 1, 0, 0)
    ELSE IF env.write_fail \in DOMAIN env.spans
         THEN Raised("error", 0, "sf.write", 1, 0, 1)
    ELSE IF ~env.asr_ok
         THEN [Raised("http", 500, "Transcription failed", 1, 1, 0)
                 EXCEPT !.chunks = ChunkMetadata(env.spans, env.audio.samplerate)]
    ELSE LET chunk_metadata == ChunkMetadata(env.spans, env.audio.samplerate)
             detailed_segments == Combine(env.texts, chunk_metadata, 1)
         IN  [Returned(Result(JoinSpace(FullTextParts(detailed_segments)),
                              language,
                              Round3(env.ptime, 1000000),
                              Round2(env.audio.frames, env.audio.samplerate),
                              detailed_segments,
                              request_id),
                       1, 1)
                 EXCEPT !.chunks = chunk_metadata]

\* no call of the model class has been made
NoEnv ==
    Env([frames |-> 0, samplerate |-> VadRate], FALSE, FALSE, << >>, FALSE, 0,
        FALSE, FALSE, << >>, 0)

NoAsrCall == [method |-> "-", language |-> "-", request_id |-> "-", env |-> NoEnv]

AsrIdle ==
    /\ asrCall = NoAsrCall
    /\ asrOut = NoOutcome

(***************************************************************************)
(* The endpoints /transcribe and /transcribe_large.                        *)
(***************************************************************************)
MAX_FILE_SIZE == 104857600

ALLOWED_MIME_TYPES ==
    { "audio/mpeg", "audio/mp3", "audio/wav", "audio/wave", "audio/x-wav",
      "audio/mp4", "audio/webm", "audio/ogg", "video/mp4", "video/webm" }

\* the extensions validate_file_type falls back to
AllowedExtensions == { ".mp3", ".wav", ".mp4", ".webm", ".ogg", ".m4a", ".flac" }

\* the seconds above which /transcribe refuses a file
MaxShortSeconds == 45

\* the transcription cache of the module: TranscriptionCache(max_size=50, ttl=3600)
TranscriptionCacheMaxSize == 50

TranscriptionCacheTtl == 3600

\* the uploads: an empty one, a 2.5 s recording, a 46 s recording of exactly
\* MAX_FILE_SIZE bytes, a text file of one byte, a recording one byte over
\* MAX_FILE_SIZE
Uploads == {"", "A", "B", "T", "huge"}

\* len(content)
SizeOf(content) ==
    CASE content = "" -> 0
      [] content = "A" -> 1024
      [] content = "B" -> MAX_FILE_SIZE
      [] content = "T" -> 1
      [] content = "huge" -> MAX_FILE_SIZE + 1

\* magic.from_buffer(content, mime=True)
MimeOf(content) ==
    CASE content = "" -> "application/x-empty"
      [] content = "A" -> "audio/x-wav"
      [] content = "B" -> "audio/mpeg"
      [] content = "T" -> "text/plain"
      [] content = "huge" -> "audio/mpeg"

\* what the upload decodes to
AudioOf(content) ==
    IF content = "B" THEN [frames |-> 736000, samplerate |-> 16000]
    ELSE FailAudio

Filenames == {"a.wav", "notes.txt"}

\* os.path.splitext(filename)[1].lower()
Ext(filename) ==
    CASE filename = "a.wav" -> ".wav"
      [] filename = "notes.txt" -> ".txt"

\* self.supported_languages
SupportedLanguages == Languages

\* the language codes requests come with
RequestLanguages == {"eng_Latn", "xx_Xxxx"}

\* int(time.time() * 1000) at the arrival of a request
ArrivalMs == {112345678, 112345679, 212345678}

\* one decimal digit as a character
Digit(d) ==
    CASE d = 0 -> "0" [] d = 1 -> "1" [] d = 2 -> "2" [] d = 3 -> "3"
      [] d = 4 -> "4" [] d = 5 -> "5" [] d = 6 -> "6" [] d = 7 -> "7"
      [] d = 8 -> "8" [] d = 9 -> "9"

\* str(n)[-k:] for n of at least k digits
RECURSIVE LastDigits(_, _)
LastDigits(n, k) ==
    IF k = 0 THEN "" ELSE LastDigits(n \div 10, k - 1) \o Digit(n % 10)

\* generate_request_id
GenerateRequestId(content, ms) ==
    Sha256Hex(content) \o "-" \o LastDigits(ms, 8)

\* what a validation function does: raise an HTTPException or return
HttpError(status, detail) == [status |-> status, detail |-> detail]

Passed == HttpError(0, "-")

\* a size check that already refuses a file of MAX_FILE_SIZE bytes
ValidateFileSizeAtLimit(file_size) ==
    IF file_size >= MAX_FILE_SIZE THEN HttpError(413, "File too large")
    ELSE IF file_size = 0 THEN HttpError(400, "Empty file uploaded")
    ELSE Passed

\* validate_file_size
ValidateFileSize(file_size) ==
    IF file_size > MAX_FILE_SIZE THEN HttpError(413, "File too large")
    ELSE IF file_size = 0 THEN HttpError(400, "Empty file uploaded")
    ELSE Passed

\* validate_file_type: the HTTPException for a type that is not allowed is
\* raised inside the try block, so the except clause catches it, as it does an
\* error of magic, and the extension decides
ValidateFileType(mime, magic_ok, filename) ==
    IF magic_ok /\ mime \in ALLOWED_MIME_TYPES THEN Passed
    ELSE IF Ext(filename) \notin AllowedExtensions
         THEN HttpError(400, "Invalid file extension")
         ELSE Passed

\* OmniASRModel.validate_language
ValidateLanguage(language) == language \in SupportedLanguages

\* the mode that names an endpoint's results in the transcription cache keys
Mode(endpoint) == IF endpoint = "/transcribe" THEN "standard" ELSE "large"

\* what an endpoint answers: the status and, with 200, the result; with it the
\* calls made to the VAD and the ASR engine, the temporary files left, and
\* what the model class raised ("-" when it returned or was not called)
Answer(status, detail, out) ==
    [status |-> status, detail |-> detail,
     result |-> IF status = 200 THEN out.result ELSE NoResult,
     vad_calls |-> out.vad_calls, asr_calls |-> out.asr_calls,
     files_left |-> out.files_left, raised |-> out.detail]

\* checks that leave the language out
ValidateWithoutLanguage(content, filename, language, magic_ok) ==
    IF ValidateFileSize(SizeOf(content)) # Passed
    THEN ValidateFileSize(SizeOf(content))
    ELSE ValidateFileType(MimeOf(content), magic_ok, filename)

\* the checks both endpoints make before they call the model class
Validate(content, filename, language, magic_ok) ==
    IF ValidateFileSize(SizeOf(content)) # Passed
    THEN ValidateFileSize(SizeOf(content))
    ELSE IF ValidateFileType(MimeOf(content), magic_ok, filename) # Passed
    THEN ValidateFileType(MimeOf(content), magic_ok, filename)
    ELSE IF ~ValidateLanguage(language)
    THEN HttpError(400, "Unsupported language")
    ELSE Passed

\* the endpoint transcribe
TranscribeAnswer(content, filename, language, magic_ok, ms, env) ==
    LET request_id == GenerateRequestId(content, ms)
        invalid == Validate(content, filename, language, magic_ok)
        out == TranscribeOutcome(env, language, request_id)
    IN  IF invalid # Passed THEN Answer(invalid.status, invalid.detail, NoOutcome)
        ELSE IF out.kind = "ok"
             THEN IF out.result.audio_duration > MaxShortSeconds * 1000
                  THEN Answer(400, "File too long", out)
                  ELSE Answer(200, "-", out)
        ELSE IF out.kind = "http" THEN Answer(out.status, out.detail, out)
        ELSE Answer(500, "Transcription failed", out)

\* an endpoint whose handler lets exceptions of the model class through, which
\* the framework answers with its own 500
TranscribeLargeAnswerUncaught(content, filename, language, magic_ok, ms, env) ==
    LET request_id == GenerateRequestId(content, ms)
        invalid == Validate(content, filename, language, magic_ok)
        out == TranscribeLargeOutcome(env, language, request_id)
    IN  IF invalid # Passed THEN Answer(invalid.status, invalid.detail, NoOutcome)
        ELSE IF out.kind = "ok" THEN Answer(200, "-", out)
        ELSE IF out.kind = "http" THEN Answer(out.status, out.detail, out)
        ELSE Answer(500, "Internal Server Error", out)

\* the endpoint transcribe_large_file
TranscribeLargeAnswer(content, filename, language, magic_ok, ms, env) ==
    LET request_id == GenerateRequestId(content, ms)
        invalid == Validate(content, filename, language, magic_ok)
        out == TranscribeLargeOutcome(env, language, request_id)
    IN  IF invalid # Passed THEN Answer(invalid.status, invalid.detail, NoOutcome)
        ELSE IF out.kind = "ok" THEN Answer(200, "-", out)
        ELSE IF out.kind = "http" THEN Answer(out.status, out.detail, out)
        ELSE Answer(500, "Transcription failed", out)

\* the calls in which at most one library fails
OneFailureEnvs ==
    { f \in FailEnvs :
        Cardinality({ x \in { <<1, f.read_ok>>, <<2, f.vad_ok>>, <<3, f.sf_ok>>,
                              <<4, f.dur_ok>>, <<5, f.asr_ok>>,
                              <<6, f.write_fail = 0>> } :
                      ~x[2] }) <= 1 }

\* the libraries with a file that is no audio: none of them can decode it
NoAudioEnv ==
    Env(FailAudio, FALSE, TRUE, << >>, FALSE, 0, FALSE, TRUE, <<<<"h", "i">>>>, 500)

\* what the libraries may do during a request: nothing that matters when the
\* request is refused before the model class is called
ApiEnvs(content, filename, language, magic_ok) ==
    IF content = "T" \/ Validate(content, filename, language, magic_ok) # Passed
    THEN { NoAudioEnv }
    ELSE { [e EXCEPT !.audio = AudioOf(content)] : e \in OneFailureEnvs }

\* a request and its answer
Response(endpoint, content, filename, language, magic_ok, request_id, seen_before, answer) ==
    [endpoint |-> endpoint, content |-> content, filename |-> filename,
     language |-> language, magic_ok |-> magic_ok, request_id |-> request_id,
     seen_before |-> seen_before, status |-> answer.status,
     detail |-> answer.detail, result |-> answer.result,
     vad_calls |-> answer.vad_calls, asr_calls |-> answer.asr_calls,
     files_left |-> answer.files_left, raised |-> answer.raised]

NoResponse ==
    Response("-", "", "-", "-", TRUE, "-", FALSE, Answer(0, "-", NoOutcome))

\* no request has been made
ApiIdle ==
    /\ resp = NoResponse
    /\ served = {}
    /\ requests = 0

(***************************************************************************)
(* Acquiring the models at startup: load_model and download_model.         *)
(***************************************************************************)
max_retries == 3

\* the first retry_delay of load_model and of download_model, in seconds
LoadRetryDelay == 30

DownloadRetryDelay == 60

Functions == {"load_model", "download_model"}

FirstDelay(f) == IF f = "load_model" THEN LoadRetryDelay ELSE DownloadRetryDelay

\* the messages of the errors torch.hub.load raises
ErrorMessages ==
    { "HTTP Error 403: rate limit exceeded", "API Rate Limit Exceeded",
      "GitHub rate limit hit", "Connection timed out",
      "HTTP Error 404: Not Found" }

\* "rate limit" in str(e).lower()
IsRateLimit(message) ==
    message \in { "HTTP Error 403: rate limit exceeded", "API Rate Limit Exceeded",
                  "GitHub rate limit hit" }

\* an except clause that retries after any error while attempts remain
OnErrorRetryAlways(message, attempt_) ==
    IF attempt_ < max_retries - 1 THEN "retry"
    ELSE "fatal"

\* the except clause of the retry loop: wait and retry, raise RuntimeError, or
\* raise the error as it came
OnError(message, attempt_) ==
    IF IsRateLimit(message) /\ attempt_ < max_retries - 1 THEN "retry"
    ELSE IF attempt_ = max_retries - 1 THEN "fatal"
    ELSE "raise"

\* a backoff that does not grow
SameDelay(delay) == delay

\* retry_delay *= 2
NextDelay(delay) == delay * 2

\* startup is over: load_model has loaded the pipeline and the VAD
StartupDone ==
    /\ fn = "load_model"
    /\ load_pc = "loaded"
    /\ attempt = 0
    /\ retry_delay = LoadRetryDelay
    /\ slept = << >>
    /\ errors = << >>
    /\ model_loaded = TRUE

(***************************************************************************)
(* verify_api_key.  The environment value is a sequence of characters, a   *)
(* key is a string.                                                        *)
(***************************************************************************)
\* the longest value of the environment variable API_KEYS
MaxEnvLen == 3

\* the characters of that value
EnvChars == {"a", "b", ","}

\* os.getenv("API_KEYS"): unset reads as the empty value does
EnvValues == UNION { [1..n -> EnvChars] : n \in 0..MaxEnvLen }

\* str.split(","): the pieces between the commas, empty ones included
RECURSIVE SplitComma(_)
SplitComma(text) ==
    IF text = << >> THEN <<"">>
    ELSE LET rest == SplitComma(Tail(text))
         IN  IF Head(text) = "," THEN <<"">> \o rest
             ELSE <<Head(text) \o rest[1]>> \o Tail(rest)

\* API_KEYS as the module builds it
ApiKeys(env) ==
    IF env = << >> THEN {}
    ELSE { SplitComma(env)[i] : i \in DOMAIN SplitComma(env) }

\* the X-API-Key header of a request: absent, empty, or a key
ApiKeyHeaders == {None, "", "a", "b", "ab", "c"}

\* a variant of verify_api_key that takes an empty header for a key
VerifyApiKeyByMembership(keys, x_api_key) ==
    IF keys = {} \/ Cardinality(keys) = 0 \/ (Cardinality(keys) = 1 /\ "" \in keys)
    THEN Passed
    ELSE IF x_api_key = None
         THEN HttpError(401, "API key required. Provide X-API-Key header.")
         ELSE IF x_api_key \notin keys
              THEN HttpError(403, "Invalid API key")
              ELSE Passed

\* verify_api_key: it returns True or raises
VerifyApiKey(keys, x_api_key) ==
    IF keys = {} \/ Cardinality(keys) = 0 \/ (Cardinality(keys) = 1 /\ "" \in keys)
    THEN Passed
    ELSE IF x_api_key = None \/ x_api_key = ""
         THEN HttpError(401, "API key required. Provide X-API-Key header.")
         ELSE IF x_api_key \notin keys
              THEN HttpError(403, "Invalid API key")
              ELSE Passed

\* no call of verify_api_key yet
NoAuth == [x_api_key |-> None, out |-> HttpError(-1, "-")]

\* authentication is off and nothing was verified
AuthIdle ==
    /\ API_KEYS = {}
    /\ auth = NoAuth

(***************************************************************************)
(* MetricsCollector (backend/monitoring.py).  Times are kept in            *)
(* milliseconds, the real-time factor in thousandths.  The uptime clock    *)
(* (start_time) is left out.                                               *)
(***************************************************************************)
\* the most records of one run
MaxRecords == 3

\* the mode strings record_transcription is called with
MetricModes == {"standard", "success"}

\* the metric types get_recent_metrics is asked for
MetricTypes == {"transcriptions", "requests", "latency"}

\* the limits get_recent_metrics is asked for (100 is the default)
Limits == {0, 1, 2, 100}

\* the processing_time and audio_duration of the calls of record_transcription
Durations ==
    { [processing_time |-> 1500, audio_duration |-> 1000],
      [processing_time |-> 1000, audio_duration |-> 0] }

\* processing_time / audio_duration if audio_duration > 0 else 0
Rtf(processing_time, audio_duration) ==
    IF audio_duration > 0 THEN (processing_time * 1000) \div audio_duration ELSE 0

\* the metric record_transcription builds at time t
TranscriptionMetric(t, request_id, language, audio_duration, processing_time, segments_count, mode, success, error) ==
    [timestamp |-> t, request_id |-> request_id, language |-> language,
     audio_duration |-> audio_duration, processing_time |-> processing_time,
     segments_count |-> segments_count, mode |-> mode, success |-> success,
     error |-> error, rtf |-> Rtf(processing_time, audio_duration)]

\* the metric record_request builds at time t
RequestMetric(t, endpoint, method, status_code, duration) ==
    [timestamp |-> t, endpoint |-> endpoint, method |-> method,
     status_code |-> status_code, duration |-> duration]

\* the metric record_error builds at time t
ErrorMetric(t, error_type, error_message, request_id) ==
    [timestamp |-> t, error_type |-> error_type,
     error_message |-> error_message, request_id |-> request_id]

\* str(status_code) of a three-digit status
StatusText(status_code) ==
    Digit(status_code \div 100) \o Digit((status_code \div 10) % 10)
        \o Digit(status_code % 10)

\* self.metrics.get(kind, [])
RecordsOf(m, kind) == IF kind \in DOMAIN m THEN m[kind] ELSE << >>

\* self.metrics[kind].append(metric), on a defaultdict(list)
AppendRecord(m, kind, metric) ==
    [k \in DOMAIN m \cup {kind} |->
        IF k = kind THEN Append(RecordsOf(m, kind), metric) ELSE m[k]]

\* self.counters[name] read, on a defaultdict(int)
CounterOf(c, name) == IF name \in DOMAIN c THEN c[name] ELSE 0

\* self.counters[name] = value
StoreCounter(c, name, value) ==
    [n \in DOMAIN c \cup {name} |-> IF n = name THEN value ELSE c[n]]

\* self.counters[name] += 1, not interrupted
Increment(c, name) == StoreCounter(c, name, CounterOf(c, name) + 1)

\* the counters a call increments, in the order of the code
CounterNames(call) ==
    CASE call.op = "record_transcription" ->
            << "transcriptions_" \o call.metric.mode,
               IF call.metric.success THEN "transcriptions_success"
               ELSE "transcriptions_failed" >>
      [] call.op = "record_request" ->
            << "requests_" \o call.metric.endpoint,
               "status_" \o StatusText(call.metric.status_code) >>
      [] call.op = "record_error" ->
            << "errors_" \o call.metric.error_type >>

\* the list a call appends its metric to
KindOf(call) ==
    CASE call.op = "record_transcription" -> "transcriptions"
      [] call.op = "record_request" -> "requests"
      [] call.op = "record_error" -> "errors"

RECURSIVE IncrementAll(_, _)
IncrementAll(c, names) ==
    IF names = << >> THEN c
    ELSE IncrementAll(Increment(c, Head(names)), Tail(names))

\* the calls of record_transcription, record_request and record_error at time t
RecordCalls(t) ==
    { [op |-> "record_transcription",
       metric |-> TranscriptionMetric(t, "rid", "eng_Latn", d.audio_duration,
                                      d.processing_time, 1, mode, success,
                                      IF success THEN None ELSE "engine failed")] :
        d \in Durations, mode \in MetricModes, success \in BOOLEAN }
    \cup { [op |-> "record_request",
            metric |-> RequestMetric(t, "/transcribe", "POST", 200, 1600)] }
    \cup { [op |-> "record_error",
            metric |-> ErrorMetric(t, "HTTPException", "Transcription failed", "rid")] }

\* sum(t[field] for t in records)
RECURSIVE SumOf(_, _)
SumOf(records, field) ==
    IF records = << >> THEN 0
    ELSE Head(records)[field] + SumOf(Tail(records), field)

\* a variant of get_summary that averages over every transcription record
SummaryOverAll(m, c) ==
    LET transcriptions == RecordsOf(m, "transcriptions")
        n == Len(transcriptions)
    IN  [counters |-> c,
         averages |->
            IF n > 0
            THEN [processing_time |->
                      Round3(SumOf(transcriptions, "processing_time"), 1000 * n),
                  audio_duration |->
                      Round2(SumOf(transcriptions, "audio_duration"), 1000 * n),
                  real_time_factor |-> Round3(SumOf(transcriptions, "rtf"), 1000 * n)]
            ELSE [processing_time |-> 0, audio_duration |-> 0,
                  real_time_factor |-> 0],
         total_transcriptions |-> Len(transcriptions),
         total_requests |-> Len(RecordsOf(m, "requests")),
         total_errors |-> Len(RecordsOf(m, "errors"))]

\* MetricsCollector.get_summary, without uptime_seconds
Summary(m, c) ==
    LET transcriptions == RecordsOf(m, "transcriptions")
        successful == SelectSeq(transcriptions, LAMBDA t : t.success)
        n == Len(successful)
    IN  [counters |-> c,
         averages |->
            IF transcriptions # << >> /\ successful # << >>
            THEN [processing_time |->
                      Round3(SumOf(successful, "processing_time"), 1000 * n),
                  audio_duration |->
                      Round2(SumOf(successful, "audio_duration"), 1000 * n),
                  real_time_factor |-> Round3(SumOf(successful, "rtf"), 1000 * n)]
            ELSE [processing_time |-> 0, audio_duration |-> 0,
                  real_time_factor |-> 0],
         total_transcriptions |-> Len(transcriptions),
         total_requests |-> Len(RecordsOf(m, "requests")),
         total_errors |-> Len(RecordsOf(m, "errors"))]

\* lst[-limit:]
LastSlice(lst, limit) ==
    LET n == Len(lst)
        first == IF limit = 0 THEN 1
                 ELSE IF limit > 0 THEN (IF limit >= n THEN 1 ELSE n - limit + 1)
                 ELSE (IF -limit >= n THEN n + 1 ELSE 1 - limit)
    IN  SubSeq(lst, first, n)

\* MetricsCollector.get_recent_metrics
RecentMetrics(m, metric_type, limit) == LastSlice(RecordsOf(m, metric_type), limit)

\* what a call leaves in mcall
NoMetricsCall == [op |-> "-"]

\* a handler thread outside any call on the collector
IdleRecorder == [pc |-> "idle", call |-> NoMetricsCall, next |-> 0, read |-> 0]

\* MetricsCollector.__init__: no record, no counter, no call yet
MetricsIdle ==
    /\ metrics = << >>
    /\ counters = << >>
    /\ mcall = NoMetricsCall
    /\ mth = [t \in Threads |-> IdleRecorder]

(***************************************************************************)
(* LanguageCache (backend/cache.py).                                       *)
(***************************************************************************)
\* the ttl of the module's language_cache
LanguageCacheTtl == 86400

\* the lists of language codes that are cached
LanguageLists == { << >>, <<"eng_Latn">>, <<"eng_Latn", "arb_Arab">> }

\* self.languages is None / get returned None
NoLanguages == <<None>>

\* self.timestamp is None
NoTimestamp == -1

\* LanguageCache.__init__
NewLanguageCache(ttl_) ==
    [languages |-> NoLanguages, timestamp |-> NoTimestamp, ttl |-> ttl_]

\* a variant of get that clears the list of an expired slot and keeps the
\* timestamp
LanguageGetKeepingTimestamp(lc, t) ==
    IF lc.languages = NoLanguages
    THEN [cache |-> lc, value |-> NoLanguages]
    ELSE IF lc.timestamp # NoTimestamp /\ lc.timestamp # 0
            /\ t - lc.timestamp > lc.ttl
         THEN [cache |-> [lc EXCEPT !.languages = NoLanguages],
               value |-> NoLanguages]
         ELSE [cache |-> lc, value |-> lc.languages]

\* LanguageCache.get at time t: the slot after it and the value returned (the
\* age is looked at only when self.timestamp is truthy: not None and not 0)
LanguageGet(lc, t) ==
    IF lc.languages = NoLanguages
    THEN [cache |-> lc, value |-> NoLanguages]
    ELSE IF lc.timestamp # NoTimestamp /\ lc.timestamp # 0
            /\ t - lc.timestamp > lc.ttl
         THEN [cache |-> [lc EXCEPT !.languages = NoLanguages,
                                    !.timestamp = NoTimestamp],
               value |-> NoLanguages]
         ELSE [cache |-> lc, value |-> lc.languages]

\* LanguageCache.set at time t
LanguageSet(lc, languages, t) ==
    [lc EXCEPT !.languages = languages, !.timestamp = t]

\* LanguageCache.clear
LanguageClear(lc) ==
    [lc EXCEPT !.languages = NoLanguages, !.timestamp = NoTimestamp]

\* what a call leaves in lcall
LanguageCall(op, value) == [op |-> op, value |-> value]

NoLanguageCall == LanguageCall("-", NoLanguages)

\* the module's language_cache as built at import
LangIdle ==
    /\ language_cache = NewLanguageCache(LanguageCacheTtl)
    /\ lcall = NoLanguageCall

\* the language and mode strings callers of TranscriptionCache pass: those of
\* the endpoints, and strings with the separator of the key in them
KeyLanguages == {"eng_Latn", "arb_Arab", "c", "b:c"}

KeyModes == {"standard", "large", "a", "a:b"}

\* the (audio_bytes, language, mode) a TranscriptionCache may be called with
KeyRequests == {"A", "B"} \X KeyLanguages \X KeyModes

Lookup(pc, stored, asked, dict, got) ==
    [pc |-> pc, stored |-> stored, asked |-> asked, dict |-> dict, got |-> got]

NoLookup == Lookup("-", <<"-", "-", "-">>, <<"-", "-", "-">>, << >>, None)

KeyIdle == lookup = NoLookup

\* authentication, metrics and the language cache as the module builds them
OthersIdle == AuthIdle /\ MetricsIdle /\ LangIdle /\ KeyIdle

\* no handler thread is in a call
ThreadsIdle ==
    /\ th = [t \in Threads |-> IdleThread]
    /\ cache0 = << >>

Init == CacheInit /\ ThreadsIdle /\ AsrIdle /\ ApiIdle /\ StartupDone /\ OthersIdle

Next == CacheNext

\* calls on one LRUCache made one at a time
Spec == Init /\ [][Next]_vars

(***************************************************************************)
(* Properties of the cache under calls made one at a time (Spec).          *)
(***************************************************************************)
\* C1: after any sequence of get, set, delete and clear calls made one at a time,
\* the number of stored entries never exceeds max_size.
C1_SizeNeverExceedsMaxSize == Len(cache) <= max_size

\* a set of a new key on a full cache of the largest size has just evicted
C1_FullCacheAfterEviction ==
    /\ ret.op = "set"
    /\ ret.evicted # NoKey
    /\ max_size = MaxSize
    /\ Len(cache) = max_size

\* C2: a set of a key not in the cache, while the cache holds max_size entries,
\* removes exactly one entry, the one least recently touched (by a set or by a
\* get that hit); a set removes no entry in any other situation.
C2_SetEvictsExactlyTheLRU ==
    [][ ret'.op = "set" =>
          LET removed == KeysOf(cache) \ KeysOf(cache')
          IN  IF ret'.key \notin KeysOf(cache) /\ Len(cache) = max_size
              THEN recency # << >> /\ removed = {Head(recency)}
              ELSE removed = {} ]_vars

\* C2 for caches built with max_size >= 1, where the code does evict
C2_EvictsTheLRUWhenMaxSizePositive ==
    [][ (ret'.op = "set" /\ max_size >= 1) =>
          LET removed == KeysOf(cache) \ KeysOf(cache')
          IN  IF ret'.key \notin KeysOf(cache) /\ Len(cache) = max_size
              THEN recency # << >> /\ removed = {Head(recency)}
              ELSE removed = {} ]_vars

\* C3: after set(k, R), a later get(k) returns R as long as no more than ttl has
\* passed since that set and no later set(k, ...), delete(k), clear or eviction
\* has replaced or removed the entry (get and set made through
\* TranscriptionCache, on the key of the request).
C3_GetReturnsLastSet ==
    (/\ ret.op = "get"
     /\ live[ret.key] # NoEntry
     /\ now - live[ret.key].ts <= ttl)
        => (ret.hit /\ ret.value = live[ret.key].value)

\* a get returned the second value set on its key, at the last instant of its
\* ttl, while another entry was stored
C3_HitAtTtl ==
    /\ ret.op = "get"
    /\ ret.hit
    /\ ret.value = "r2"
    /\ live[ret.key] = [value |-> "r2", ts |-> now - ttl]
    /\ Len(cache) = 2

(***************************************************************************)
(* Concurrent calls: the handler threads of one container share the cache, *)
(* and LRUCache takes no lock.  A thread is switched out only where the    *)
(* interpreter (CPython 3.11, the container's) checks for it: at a call.   *)
(* The steps of get and set below are the stretches between two calls.     *)
\* over all uploads, languages and modes: two requests have the same key
\* exactly when their bytes, language and mode are the same
KeysDifferExactlyWithTheRequest ==
    \A t1, t2 \in Uploads \X Languages \X {"standard", "large"} :
        (GenerateKey(t1[1], t1[2], t1[3]) = GenerateKey(t2[1], t2[2], t2[3]))
            <=> (t1 = t2)

\* C26: the cache key is "{mode}:{language}:{sha256 hex of audio_bytes}": the
\* key of every get and set through TranscriptionCache is the one of its
\* (bytes, language, mode) whatever was stored or asked before, and two
\* requests get the same key exactly when their bytes, language and mode are
\* the same, so different bytes get different keys whatever they decode to.
C26_KeyIsModeLanguageDigest ==
    /\ ret.op \in {"get", "set"} =>
          \E t \in Triples :
              ret.key = t[3] \o ":" \o t[2] \o ":" \o Sha256Hex(t[1])
    /\ KeysDifferExactlyWithTheRequest

\* the same bytes and language are stored under the standard and the large
\* mode, under two keys
C26_SameBytesTwoModes ==
    /\ ret.op = "set"
    /\ ret.key = "large:eng_Latn:559aead0"
    /\ "standard:eng_Latn:559aead0" \in KeysOf(cache)
    /\ Len(cache) = 2

\* C28: a get that hits key k makes k the most recently used entry, so the
\* next set that evicts, while another entry is stored, evicts that other
\* entry: with max_size = 2 and two stored keys, a get that hits k1 followed by
\* the set of a third key k3 evicts the other key and leaves exactly k1 and k3.
C28_HitMakesMostRecentlyUsed ==
    [][ /\ (ret'.op = "get" /\ ret'.hit) =>
              cache'[Len(cache')].key = ret'.key
        /\ (/\ ret.op = "get"
            /\ ret.hit
            /\ ret'.op = "set"
            /\ ret'.key \notin KeysOf(cache)
            /\ Len(cache) = max_size
            /\ Len(cache) >= 2) =>
              /\ ret'.evicted \in KeysOf(cache) \ {ret.key}
              /\ ret'.evicted = cache[1].key
              /\ KeysOf(cache') = (KeysOf(cache) \ {ret'.evicted}) \cup {ret'.key}
              /\ ret.key \in KeysOf(cache') ]_vars

\* in a full cache of two entries a get has hit the entry set first, which now
\* comes after the entry set later: the next set of a new key evicts the latter
C28_OlderEntryHitInFullCache ==
    /\ ret.op = "get"
    /\ ret.hit
    /\ max_size = 2
    /\ Len(cache) = 2
    /\ cache[2].key = ret.key
    /\ cache[2].ts < cache[1].ts

\* C29: a get never changes the timestamp of an entry: the entries a get
\* leaves are entries exactly as they were stored, and a get on a key comes
\* back absent once more than ttl has passed since the last set on that key,
\* whether or not gets hit the entry in between; a set stores the entry with
\* the time of the set.
C29_OnlySetRestartsTheAge ==
    [][ /\ ret'.op = "get" =>
              /\ \A i \in DOMAIN cache' : \E j \in DOMAIN cache : cache'[i] = cache[j]
              /\ (/\ live[ret'.key] # NoEntry
                  /\ now - live[ret'.key].ts > ttl) =>
                      (~ret'.hit /\ ret'.value = None)
        /\ (ret'.op = "set" /\ ~ret'.raised) =>
              cache'[IndexOf(cache', ret'.key)].ts = now ]_vars

\* gets have hit twice, the last of them an entry that was set earlier: the
\* entry still carries the time of its set
C29_SecondHitKeepsSetTime ==
    /\ ret.op = "get"
    /\ ret.hit
    /\ hits = 2
    /\ Len(cache) = 1
    /\ max_size = 1
    /\ cache[1].ts < now
    /\ cache[1].ts = live[ret.key].ts

\* C30: get(k) on an entry whose age is strictly greater than ttl returns
\* absent, removes that entry and no other, and increments misses, not hits;
\* on an entry whose age is at most ttl (equal to ttl included) it returns the
\* value as a hit; on an absent key it increments misses and changes no entry.
C30_GetExpiresStrictlyAfterTtl ==
    [][ ret'.op = "get" =>
          LET k == ret'.key
          IN  IF k \in KeysOf(cache)
              THEN LET e == cache[IndexOf(cache, k)]
                   IN  IF now - e.ts > ttl
                       THEN /\ ret'.value = None
                            /\ ~ret'.hit
                            /\ cache' = DelKey(cache, k)
                            /\ k \notin KeysOf(cache')
                            /\ misses' = misses + 1
                            /\ hits' = hits
                       ELSE /\ ret'.value = e.value
                            /\ ret'.hit
                            /\ KeysOf(cache') = KeysOf(cache)
                            /\ hits' = hits + 1
                            /\ misses' = misses
              ELSE /\ ret'.value = None
                   /\ ~ret'.hit
                   /\ cache' = cache
                   /\ misses' = misses + 1
                   /\ hits' = hits ]_vars

\* a get has removed an entry one tick after the end of its ttl, after a get
\* that hit, and another entry is still stored
C30_ExpiredEntryRemoved ==
    /\ ret.op = "get"
    /\ ~ret.hit
    /\ live[ret.key] # NoEntry
    /\ now - live[ret.key].ts = ttl + 1
    /\ ret.key \notin KeysOf(cache)
    /\ misses = 1
    /\ hits = 1
    /\ Len(cache) = 1

\* C34: set(k, v) on a key already in the cache, at any size including
\* max_size and also when the old entry is expired, does not raise, evicts
\* nothing and leaves the size unchanged: the entry of k now holds v with the
\* time of the call and is the most recently used, and the other entries keep
\* their content and their order.
C34_SetOfStoredKeyReplacesInPlace ==
    [][ (ret'.op = "set" /\ ret'.key \in KeysOf(cache)) =>
            /\ ~ret'.raised
            /\ ret'.evicted = NoKey
            /\ Len(cache') = Len(cache)
            /\ cache'[Len(cache')] =
                  [key |-> ret'.key, value |-> ret'.stored, ts |-> now]
            /\ SubSeq(cache', 1, Len(cache') - 1) = DelKey(cache, ret'.key) ]_vars

\* a set on a key of a full cache whose entry had expired: nothing evicted,
\* the entry is new and last, the other entry is older
C34_ExpiredEntryReplacedInFullCache ==
    /\ ret.op = "set"
    /\ ret.replaced = "expired"
    /\ ret.evicted = NoKey
    /\ Len(cache) = 2
    /\ max_size = 2
    /\ cache[2] = [key |-> ret.key, value |-> ret.stored, ts |-> now]
    /\ cache[1].ts < now

\* C33: get_stats reports hit_rate = hits / (hits + misses) * 100 for the
\* counters at the time of the call (to the two decimals it keeps), reports 0
\* when hits + misses is 0, and its size is the number of stored entries.
C33_StatsReportRateAndSize ==
    ret.op = "stats" =>
        /\ ret.stats.size = Len(cache)
        /\ ret.stats.hits = hits
        /\ ret.stats.misses = misses
        /\ hits + misses = 0 => ret.stats.hit_rate = 0
        /\ hits + misses > 0 =>
              LET err == ret.stats.hit_rate * (hits + misses) - hits * 10000
              IN  /\ 2 * err <= hits + misses
                  /\ -2 * err <= hits + misses

\* get_stats after one hit and one miss on a cache of two entries: 50.0
C33_StatsAfterOneHitOneMiss ==
    /\ ret.op = "stats"
    /\ hits = 1
    /\ misses = 1
    /\ Len(cache) = 2
    /\ ret.stats.hit_rate = 5000
    /\ ret.stats.size = 2

\* C32: after clear() the cache holds no entry and hits and misses are both
\* 0, whatever the state before; a second clear changes nothing more, and the
\* calls after a clear count from zero: the first get makes hits + misses 1
\* and a set leaves both counters at 0.
C32_ClearEmptiesAndResetsCounters ==
    [][ /\ ret'.op = "clear" =>
              /\ cache' = << >>
              /\ hits' = 0
              /\ misses' = 0
        /\ (ret.op = "clear" /\ ret'.op = "clear") =>
              /\ cache' = cache
              /\ hits' = hits
              /\ misses' = misses
        /\ (ret.op = "clear" /\ ret'.op = "get") =>
              /\ ~ret'.hit
              /\ hits' = 0
              /\ misses' = 1
        /\ (ret.op = "clear" /\ ret'.op = "set") =>
              /\ hits' = 0
              /\ misses' = 0
              /\ Len(cache') <= 1 ]_vars

\* a clear has wiped a full cache whose counters stood at one hit and one miss
C32_FullCacheWithCountsCleared ==
    /\ ret.op = "clear"
    /\ ret.entries = 2
    /\ ret.counted = 2
    /\ cache = << >>
    /\ hits + misses = 0

\* C31: an entry leaves the cache only through delete of its key, clear,
\* eviction as the least recently used entry by a set of a new key on a full
\* cache, or a get on its own key after its age exceeded ttl; the passing of
\* time alone removes nothing, so an expired entry that was not read still
\* counts toward the size and keeps its place in the eviction order.
C31_EntriesLeaveOnlyByTheirOwnExits ==
    [][ /\ \A k \in KeysOf(cache) \ KeysOf(cache') :
              \/ ret'.op = "delete" /\ ret'.key = k
              \/ ret'.op = "clear"
              \/ /\ ret'.op = "set"
                 /\ ret'.key \notin KeysOf(cache)
                 /\ Len(cache) = max_size
                 /\ k = cache[1].key
                 /\ KeysOf(cache) \ KeysOf(cache') = {k}
              \/ /\ ret'.op = "get"
                 /\ ret'.key = k
                 /\ now - cache[IndexOf(cache, k)].ts > ttl
        /\ now' # now => cache' = cache
        /\ \A i, j \in DOMAIN cache :
              (/\ i < j
               /\ cache[i].key \in KeysOf(cache') \ {ret'.key}
               /\ cache[j].key \in KeysOf(cache') \ {ret'.key}) =>
                    IndexOf(cache', cache[i].key) < IndexOf(cache', cache[j].key) ]_vars

\* a set on a full cache has evicted the least recently used entry while an
\* entry that had expired, and that no get had read, stayed stored
C31_ExpiredEntryStillStored ==
    /\ ret.op = "set"
    /\ ret.evicted # NoKey
    /\ Len(cache) = 2
    /\ cache[1].key # ret.key
    /\ now - cache[1].ts > ttl
    /\ hits + misses = 0

(***************************************************************************)
\* the caches a run of calls made one after the other leaves: distinct keys,
\* at most m of them, set at times up to t in the order they are stored
ReachableCaches(m, t) ==
    { c \in UNION { [1..n -> [key : CacheKeys, value : {"r1"}, ts : 0..t]] :
                    n \in 0..m } :
        /\ \A i, j \in DOMAIN c : i < j => c[i].key # c[j].key /\ c[i].ts <= c[j].ts }

\* the cache was filled by earlier requests; no handler is in a call yet
ConcInit ==
    /\ max_size \in 1..MaxSize
    /\ ttl \in Ttls
    /\ now \in 0..MaxTime
    /\ cache \in ReachableCaches(max_size, now)
    /\ cache0 = cache
    /\ hits = 0
    /\ misses = 0
    /\ ret = NoCall
    /\ recency = << >>
    /\ live = [k \in CacheKeys |-> NoEntry]
    /\ th = [t \in Threads |-> IdleThread]
    /\ AsrIdle
    /\ ApiIdle
    /\ StartupDone
    /\ OthersIdle

\* thread t moves to pc p with the locals of record r changed
Goto(t, p, r) == th' = [th EXCEPT ![t] = [r EXCEPT !.pc = p]]

\* thread t leaves its call by raising
Raise(t) == th' = [th EXCEPT ![t] = [@ EXCEPT !.pc = "done", !.raised = TRUE]]

ConcFrame ==
    UNCHANGED <<max_size, ttl, now, ret, recency, live, cache0, asrVars, apiVars,
                loadVars, otherVars>>

\* a handler calls get(k)
CallGet(t, k) ==
    /\ th[t].pc = "idle"
    /\ Goto(t, "get_in", [th[t] EXCEPT !.op = "get", !.key = k])
    /\ UNCHANGED <<cache, hits, misses>> /\ ConcFrame

\* a handler calls set(k, v)
CallSet(t, k, v) ==
    /\ th[t].pc = "idle"
    /\ Goto(t, "set_in", [th[t] EXCEPT !.op = "set", !.key = k, !.arg = v])
    /\ UNCHANGED <<cache, hits, misses>> /\ ConcFrame

\* get: if key not in self.cache: self.misses += 1; return None
\*      value, timestamp = self.cache[key]
GetIn(t) ==
    /\ th[t].pc = "get_in"
    /\ IF th[t].key \notin KeysOf(cache)
       THEN /\ misses' = misses + 1
            /\ Goto(t, "done", th[t])
       ELSE LET e == cache[IndexOf(cache, th[t].key)]
            IN  /\ misses' = misses
                /\ Goto(t, "get_expired",
                        [th[t] EXCEPT !.value = e.value, !.ts = e.ts])
    /\ UNCHANGED <<cache, hits>> /\ ConcFrame

\* get, after the call of _is_expired(timestamp) on the timestamp read before:
\*      del self.cache[key]; self.misses += 1; return None
\*   or self.cache.move_to_end(key); self.hits += 1; return value
\* (del and move_to_end raise KeyError when the key has gone meanwhile)
GetExpired(t) ==
    /\ th[t].pc = "get_expired"
    /\ IF th[t].key \notin KeysOf(cache)
       THEN /\ UNCHANGED <<cache, hits, misses>>
            /\ Raise(t)
       ELSE IF IsExpired(th[t].ts, now, ttl)
            THEN /\ cache' = DelKey(cache, th[t].key)
                 /\ misses' = misses + 1
                 /\ hits' = hits
                 /\ Goto(t, "done", th[t])
            ELSE /\ cache' = MoveToEnd(cache, th[t].key)
                 /\ hits' = hits + 1
                 /\ misses' = misses
                 /\ Goto(t, "done", [th[t] EXCEPT !.result = th[t].value])
    /\ ConcFrame

\* set: if key in self.cache: self.cache.move_to_end(key)
\*      elif len(self.cache) ...
SetIn(t) ==
    /\ th[t].pc = "set_in"
    /\ IF th[t].key \in KeysOf(cache)
       THEN /\ cache' = MoveToEnd(cache, th[t].key)
            /\ Goto(t, "set_store", th[t])
       ELSE /\ cache' = cache
            /\ Goto(t, "set_len", [th[t] EXCEPT !.len = Len(cache)])
    /\ UNCHANGED <<hits, misses>> /\ ConcFrame

\* set, after the call of len: ... >= self.max_size:
\*      oldest_key = next(iter(self.cache))
SetLen(t) ==
    /\ th[t].pc = "set_len"
    /\ IF th[t].len >= max_size
       THEN IF cache # << >>
            THEN Goto(t, "set_del", [th[t] EXCEPT !.oldest = Head(cache).key])
            ELSE Raise(t)
       ELSE Goto(t, "set_store", th[t])
    /\ UNCHANGED <<cache, hits, misses>> /\ ConcFrame

\* set, after the calls of iter and next: del self.cache[oldest_key]
SetDel(t) ==
    /\ th[t].pc = "set_del"
    /\ IF th[t].oldest \in KeysOf(cache)
       THEN /\ cache' = DelKey(cache, th[t].oldest)
            /\ Goto(t, "set_store", th[t])
       ELSE /\ UNCHANGED cache
            /\ Raise(t)
    /\ UNCHANGED <<hits, misses>> /\ ConcFrame

\* set, after the calls of logger.debug and time.time:
\*      self.cache[key] = (value, time.time())
SetStore(t) ==
    /\ th[t].pc = "set_store"
    /\ cache' = StoreKey(cache, th[t].key, th[t].arg, now)
    /\ Goto(t, "done", th[t])
    /\ UNCHANGED <<hits, misses>> /\ ConcFrame

\* a handler calls delete(k)
CallDelete(t, k) ==
    /\ th[t].pc = "idle"
    /\ Goto(t, "delete_in", [th[t] EXCEPT !.op = "delete", !.key = k])
    /\ UNCHANGED <<cache, hits, misses>> /\ ConcFrame

\* delete: if key in self.cache: del self.cache[key]
DeleteIn(t) ==
    /\ th[t].pc = "delete_in"
    /\ cache' = DeleteResult(cache, th[t].key)
    /\ Goto(t, "done", th[t])
    /\ UNCHANGED <<hits, misses>> /\ ConcFrame

\* a handler calls clear()
CallClear(t) ==
    /\ th[t].pc = "idle"
    /\ Goto(t, "clear_in", [th[t] EXCEPT !.op = "clear"])
    /\ UNCHANGED <<cache, hits, misses>> /\ ConcFrame

\* clear: self.cache.clear()
ClearIn(t) ==
    /\ th[t].pc = "clear_in"
    /\ cache' = << >>
    /\ Goto(t, "clear_counters", th[t])
    /\ UNCHANGED <<hits, misses>> /\ ConcFrame

\* clear, after the call of OrderedDict.clear: self.hits = 0; self.misses = 0
ClearCounters(t) ==
    /\ th[t].pc = "clear_counters"
    /\ hits' = 0
    /\ misses' = 0
    /\ Goto(t, "done", th[t])
    /\ UNCHANGED cache /\ ConcFrame

ConcNext ==
    \E t \in Threads :
        \/ \E k \in CacheKeys : CallGet(t, k)
        \/ \E k \in CacheKeys : CallSet(t, k, "r2")
        \/ \E k \in CacheKeys : CallDelete(t, k)
        \/ CallClear(t)
        \/ GetIn(t) \/ GetExpired(t)
        \/ SetIn(t) \/ SetLen(t) \/ SetDel(t) \/ SetStore(t)
        \/ DeleteIn(t)
        \/ ClearIn(t) \/ ClearCounters(t)

\* one call per handler thread on a shared LRUCache, interleaved
SpecConc == ConcInit /\ [][ConcNext]_vars

Done(t) == th[t].pc = "done"

\* what get(k) and set(k, v) leave when run one after the other from cache c:
\* the value the get returns and the final dict
GetThenSet(c, k, v) ==
    LET g == GetResult(c, k, now, ttl)
        w == SetResult(g.cache, k, v, now, max_size)
    IN  [value |-> g.value, cache |-> w.cache]

SetThenGet(c, k, v) ==
    LET w == SetResult(c, k, v, now, max_size)
        g == GetResult(w.cache, k, now, ttl)
    IN  [value |-> g.value, cache |-> g.cache]

\* the evictions that calls made one after the other need for the keys now set
EvictionsNeeded ==
    LET wanted == KeysOf(cache0) \cup { th[t].key : t \in Threads }
        over == Cardinality(wanted) - max_size
    IN  IF over > 0 THEN over ELSE 0

\* C4: when several set calls run concurrently on one LRUCache, the cache never
\* holds more than max_size entries, and two racing sets do not both evict for a
\* single free slot.
C4_ConcurrentSetsKeepBound ==
    (\A t \in Threads : th[t].op \in {"-", "set"}) =>
        /\ Len(cache) <= max_size
        /\ (\A t \in Threads : Done(t)) =>
              Cardinality(KeysOf(cache0) \ KeysOf(cache)) <= EvictionsNeeded

\* C38: under any interleaving of concurrent calls on one LRUCache, a get(k)
\* that overlaps a delete(k), a clear, or a set of another key that evicts k
\* returns either the stored value or absent and never raises, and after all
\* calls finish hits + misses equals the number of get calls made since the
\* last clear (here: the number of get calls, in the runs without a clear).
C38_OverlappingGetNeverRaises ==
    /\ \A g \in Threads :
          (Done(g) /\ th[g].op = "get") =>
              /\ ~th[g].raised
              /\ th[g].result \in {None, "r1", "r2"}
    /\ ((\A t \in Threads : Done(t)) /\ (\A t \in Threads : th[t].op # "clear")) =>
          hits + misses = Cardinality({ t \in Threads : th[t].op = "get" })

\* C5: a get(k) concurrent with a set(k, v) behaves as the two calls run one
\* after the other in some order: the get returns the value of that order and the
\* final cache is that order's, also when the old entry of k is expired.
C5_GetSetLinearizable ==
    \A g, s \in Threads :
        (/\ Done(g) /\ th[g].op = "get"
         /\ Done(s) /\ th[s].op = "set"
         /\ th[g].key = th[s].key)
            => /\ ~th[g].raised /\ ~th[s].raised
               /\ \E o \in { GetThenSet(cache0, th[g].key, th[s].arg),
                             SetThenGet(cache0, th[g].key, th[s].arg) } :
                     th[g].result = o.value /\ cache = o.cache


(***************************************************************************)
(* Calls of the model class, one at a time (SpecAsr).                      *)
(***************************************************************************)
\* the request ids of direct calls
RequestIds == {"rid"}

\* the module's transcription cache as built at import, which no call touches
ModuleCache ==
    /\ cache = << >>
    /\ max_size = TranscriptionCacheMaxSize
    /\ ttl = TranscriptionCacheTtl
    /\ hits = 0
    /\ misses = 0
    /\ now = 0
    /\ ret = NoCall
    /\ recency = << >>
    /\ live = [k \in CacheKeys |-> NoEntry]

\* the calls made: transcribe never runs the VAD, transcribe_large may
AsrCalls ==
    { [method |-> "transcribe", language |-> language,
       request_id |-> request_id, env |-> env] :
        env \in WholeFileEnvs, language \in Languages, request_id \in RequestIds }
    \cup
    { [method |-> "transcribe_large", language |-> language,
       request_id |-> request_id, env |-> env] :
        env \in Envs, language \in Languages, request_id \in RequestIds }

\* a call has been made and has not ended yet
AsrInit ==
    /\ ModuleCache
    /\ ThreadsIdle
    /\ ApiIdle
    /\ StartupDone
    /\ OthersIdle
    /\ asrCall \in AsrCalls
    /\ asrOut = NoOutcome

\* OmniASRModel.transcribe
Transcribe ==
    /\ asrCall.method = "transcribe"
    /\ asrOut = NoOutcome
    /\ asrOut' = TranscribeOutcome(asrCall.env, asrCall.language,
                                   asrCall.request_id)
    /\ UNCHANGED <<asrCall, cacheVars, concVars, apiVars, loadVars, otherVars>>

\* OmniASRModel.transcribe_large
TranscribeLarge ==
    /\ asrCall.method = "transcribe_large"
    /\ asrOut = NoOutcome
    /\ asrOut' = TranscribeLargeOutcome(asrCall.env, asrCall.language,
                                        asrCall.request_id)
    /\ UNCHANGED <<asrCall, cacheVars, concVars, apiVars, loadVars, otherVars>>

AsrNext == Transcribe \/ TranscribeLarge

SpecAsr == AsrInit /\ [][AsrNext]_vars

(***************************************************************************)
(* Requests to the endpoints, one at a time (SpecApi).                     *)
(***************************************************************************)
\* the most requests of one run
MaxRequests == 2

ApiInit == ModuleCache /\ ThreadsIdle /\ AsrIdle /\ ApiIdle /\ StartupDone /\ OthersIdle

\* POST /transcribe
TranscribeEndpoint(content, filename, language, magic_ok, ms, env) ==
    LET answer == TranscribeAnswer(content, filename, language, magic_ok, ms, env)
        triple == <<content, language, Mode("/transcribe")>>
    IN  /\ requests < MaxRequests
        /\ resp' = Response("/transcribe", content, filename, language, magic_ok,
                            GenerateRequestId(content, ms), triple \in served,
                            answer)
        /\ served' = IF answer.status = 200 THEN served \cup {triple} ELSE served
        /\ requests' = requests + 1
        /\ UNCHANGED <<cacheVars, concVars, asrVars, loadVars, otherVars>>

\* POST /transcribe_large
TranscribeLargeFile(content, filename, language, magic_ok, ms, env) ==
    LET answer == TranscribeLargeAnswer(content, filename, language, magic_ok, ms,
                                        env)
        triple == <<content, language, Mode("/transcribe_large")>>
    IN  /\ requests < MaxRequests
        /\ resp' = Response("/transcribe_large", content, filename, language, magic_ok,
                            GenerateRequestId(content, ms), triple \in served,
                            answer)
        /\ served' = IF answer.status = 200 THEN served \cup {triple} ELSE served
        /\ requests' = requests + 1
        /\ UNCHANGED <<cacheVars, concVars, asrVars, loadVars, otherVars>>

ApiNext ==
    \/ \E content \in Uploads, filename \in Filenames,
          language \in RequestLanguages, magic_ok \in BOOLEAN, ms \in ArrivalMs :
            \E env \in { e \in ApiEnvs(content, filename, language, magic_ok) :
                            e.spans = << >> } :
                TranscribeEndpoint(content, filename, language, magic_ok, ms, env)
    \/ \E content \in Uploads, filename \in Filenames,
          language \in RequestLanguages, magic_ok \in BOOLEAN, ms \in ArrivalMs :
            \E env \in ApiEnvs(content, filename, language, magic_ok) :
                TranscribeLargeFile(content, filename, language, magic_ok, ms, env)

SpecApi == ApiInit /\ [][ApiNext]_vars


(***************************************************************************)
(* Properties of the endpoints (SpecApi).                                  *)
(***************************************************************************)
\* C6: every transcription request for (audio bytes, language, mode) goes
\* through the transcription cache: a result that is returned is in the cache
\* under the key of the request, and a request identical to one answered before
\* is answered without a call to the VAD or to the ASR engine.
C6_RequestsGoThroughTheCache ==
    resp.status = 200 =>
        /\ GenerateKey(resp.content, resp.language, Mode(resp.endpoint))
               \in KeysOf(cache)
        /\ resp.seen_before => resp.vad_calls = 0 /\ resp.asr_calls = 0

(***************************************************************************)
(* Properties of the model class (SpecAsr).                                *)
(***************************************************************************)
\* the call was transcribe_large, it got past the VAD and it has ended
LargeCallPastVad ==
    /\ asrCall.method = "transcribe_large"
    /\ asrOut # NoOutcome
    /\ asrCall.env.read_ok
    /\ asrCall.env.vad_ok

\* the call was transcribe_large and it returned a result built from chunks
ChunkedResult ==
    /\ LargeCallPastVad
    /\ asrCall.env.spans # << >>
    /\ asrOut.kind = "ok"

\* C7: when the VAD returns no speech span, transcribe_large ends exactly as
\* the whole-file transcribe ends for the same input and language: the same
\* result in every field, or the same error, and never an error of its own for
\* the empty span list.
C7_NoSpansEqualsWholeFile ==
    LargeCallPastVad /\ asrCall.env.spans = << >> =>
        LET whole == TranscribeOutcome(asrCall.env, asrCall.language,
                                       asrCall.request_id)
        IN  /\ asrOut.kind = whole.kind
            /\ asrOut.status = whole.status
            /\ asrOut.detail = whole.detail
            /\ asrOut.result = whole.result
            /\ asrOut.kind = "ok" =>
                   /\ asrOut.result.segments_count = 1
                   /\ asrOut.result.transcription = asrCall.env.texts[1]

\* a call of transcribe_large without speech spans returned a result
C7_NoSpansReturnedResult ==
    /\ LargeCallPastVad
    /\ asrCall.env.spans = << >>
    /\ asrOut.kind = "ok"
    /\ asrOut.vad_calls = 1
    /\ asrOut.result.segments # << >>

\* C8: in the chunked path the segments are exactly the chunks whose stripped
\* text is not empty, in chunk order, each with its stripped text and the
\* rounded start and end of its own chunk; a chunk whose stripped text is empty
\* gives no segment, no text and no timestamp.
C8_SegmentsAreTheNonEmptyChunks ==
    ChunkedResult =>
        LET texts == asrCall.env.texts
            spans == asrCall.env.spans
            segments == asrOut.result.segments
            kept == { i \in DOMAIN texts : Strip(texts[i]) # << >> }
        IN  /\ Len(segments) = Cardinality(kept)
            /\ asrOut.result.segments_count = Cardinality(kept)
            /\ \A i \in kept :
                   LET j == Cardinality({ k \in kept : k <= i })
                   IN  /\ segments[j].text = Strip(texts[i])
                       /\ segments[j].start = Round3(spans[i].start, VadRate)
                       /\ segments[j].end = Round3(spans[i].end, VadRate)
            /\ asrOut.result.transcription
                   = JoinSpace([j \in DOMAIN segments |-> segments[j].text])

\* three chunks, the middle one without text, the last one with whitespace
\* around its text: two segments are left
C8_MiddleChunkDropped ==
    /\ ChunkedResult
    /\ Len(asrCall.env.texts) = 3
    /\ Strip(asrCall.env.texts[1]) # << >>
    /\ Strip(asrCall.env.texts[2]) = << >>
    /\ asrCall.env.texts[2] # << >>
    /\ Strip(asrCall.env.texts[3]) # asrCall.env.texts[3]
    /\ Len(asrOut.result.segments) = 2

\* C9: every segment of every result of transcribe and of transcribe_large
\* (whole file, chunks, fallback), with start and end as rounded, has
\* end > start.
C9_EverySegmentEndsAfterItsStart ==
    asrOut.kind = "ok" =>
        \A j \in DOMAIN asrOut.result.segments :
            asrOut.result.segments[j].end > asrOut.result.segments[j].start

\* C10: in every result of transcribe_large, the VAD spans being ascending by
\* start and not overlapping, the segments are ascending by start and each
\* segment ends no later than the next one starts.
C10_SegmentsAscendingAndDisjoint ==
    /\ asrCall.method = "transcribe_large"
    /\ asrOut.kind = "ok"
    /\ \A i \in 1..(Len(asrCall.env.spans) - 1) :
           /\ asrCall.env.spans[i].start <= asrCall.env.spans[i + 1].start
           /\ asrCall.env.spans[i].end <= asrCall.env.spans[i + 1].start
    => \A j \in 1..(Len(asrOut.result.segments) - 1) :
           /\ asrOut.result.segments[j].start <= asrOut.result.segments[j + 1].start
           /\ asrOut.result.segments[j].end <= asrOut.result.segments[j + 1].start

\* two segments of chunks that touch: the first ends where the second starts,
\* at a time that rounding has moved
C10_TouchingSegments ==
    /\ ChunkedResult
    /\ Len(asrOut.result.segments) >= 2
    /\ asrOut.result.segments[1].end = asrOut.result.segments[2].start
    /\ asrOut.result.segments[1].end * VadRate # asrCall.env.spans[1].end * 1000


\* C11: in every result of transcribe and of transcribe_large, segments_count
\* is the number of entries of segments; in the chunked path that is the
\* number of chunks kept, those whose stripped text is not empty.
C11_SegmentsCountIsLenSegments ==
    asrOut.kind = "ok" =>
        /\ asrOut.result.segments_count = Len(asrOut.result.segments)
        /\ ChunkedResult =>
               asrOut.result.segments_count
                   = Cardinality({ i \in DOMAIN asrCall.env.texts :
                                     Strip(asrCall.env.texts[i]) # << >> })

\* a chunked result that kept fewer chunks than were cut, and not just one
C11_FewerSegmentsThanChunks ==
    /\ ChunkedResult
    /\ asrOut.result.segments_count < Len(asrOut.chunks)
    /\ asrOut.result.segments_count # 1

\* C12: in every result of transcribe and of transcribe_large, transcription
\* is the texts of the segments, in segment order, with one space between
\* neighbours; it is empty when there is no segment.
C12_TranscriptionIsJoinedSegmentTexts ==
    asrOut.kind = "ok" =>
        LET segments == asrOut.result.segments
            transcription == asrOut.result.transcription
            \* the characters of the texts and separators before segment j
            RECURSIVE Offset(_)
            Offset(j) ==
                IF j = 1 THEN 0 ELSE Offset(j - 1) + Len(segments[j - 1].text) + 1
        IN  /\ segments = << >> => transcription = << >>
            /\ segments # << >> =>
                   Len(transcription)
                       = Offset(Len(segments)) + Len(segments[Len(segments)].text)
            /\ \A j \in DOMAIN segments :
                   /\ SubSeq(transcription, Offset(j) + 1,
                             Offset(j) + Len(segments[j].text)) = segments[j].text
                   /\ j > 1 => transcription[Offset(j)] = " "

\* a chunked result with at least two segments, and so with a separator
C12_TwoTextsJoined ==
    /\ ChunkedResult
    /\ Len(asrOut.result.segments) >= 2
    /\ Len(asrOut.result.transcription)
           > Len(asrOut.result.segments[1].text) + Len(asrOut.result.segments[2].text)

DecodeFailed ==
    /\ asrOut # NoOutcome
    /\ \/ asrCall.method = "transcribe" /\ ~asrCall.env.dur_ok
       \/ /\ asrCall.method = "transcribe_large"
          /\ \/ ~asrCall.env.read_ok
             \/ /\ asrCall.env.read_ok
                /\ asrCall.env.vad_ok
                /\ IF asrCall.env.spans = << >>
                   THEN ~asrCall.env.dur_ok
                   ELSE ~asrCall.env.sf_ok

\* C14: when the audio cannot be decoded, at the 16 kHz rate of the VAD or at
\* its native rate, or its duration cannot be determined, the call fails with
\* HTTP 400 "Invalid audio file", and it does so before any call to the VAD or
\* to the ASR engine.
C14_DecodeFailureIsInvalidInput ==
    DecodeFailed =>
        /\ asrOut.kind = "http"
        /\ asrOut.status = 400
        /\ asrOut.detail = "Invalid audio file"
        /\ asrOut.vad_calls = 0
        /\ asrOut.asr_calls = 0

(***************************************************************************)
(* More properties of the endpoints (SpecApi) and of the cache (Spec).     *)
(***************************************************************************)
\* C15: when the call to the ASR engine or to the VAD raises, the request ends
\* with HTTP 500 "Transcription failed", not with the 400 of an invalid
\* input, and no request calls the ASR engine or the VAD more than once.
C15_EngineFailureIsTranscriptionFailed ==
    /\ resp.raised \in {"get_speech_timestamps", "Transcription failed"} =>
           /\ resp.status = 500
           /\ resp.detail = "Transcription failed"
    /\ resp.asr_calls <= 1
    /\ resp.vad_calls <= 1
    /\ resp.endpoint = "/transcribe" => resp.vad_calls = 0

\* the VAD raised during a request to /transcribe_large
C15_VadRaised ==
    /\ resp.endpoint = "/transcribe_large"
    /\ resp.raised = "get_speech_timestamps"
    /\ resp.vad_calls = 1
    /\ resp.asr_calls = 0
    /\ resp.status = 500

\* C16: no failure inside the cache reaches the caller: for every max_size, 0
\* included, every ttl and every key, get returns a value or None and set
\* returns normally.
C16_CacheCallsNeverRaise ==
    ret.op \in {"get", "set"} => ~ret.raised

\* C19: the VAD and the ASR engine are never called for a request that failed
\* the file-size, file-type or language validation, and a request whose file
\* passes but whose language is not supported ends with HTTP 400
\* "Unsupported language".
C19_NoEngineCallAfterFailedValidation ==
    LET size == ValidateFileSize(SizeOf(resp.content))
        type == ValidateFileType(MimeOf(resp.content), resp.magic_ok, resp.filename)
    IN  resp.endpoint # "-" =>
            /\ size # Passed \/ type # Passed \/ ~ValidateLanguage(resp.language) =>
                   /\ resp.vad_calls = 0
                   /\ resp.asr_calls = 0
                   /\ resp.status \in {400, 413}
                   /\ resp.raised = "-"
            /\ size = Passed /\ type = Passed /\ ~ValidateLanguage(resp.language) =>
                   /\ resp.status = 400
                   /\ resp.detail = "Unsupported language"

\* an audio file that passes the size and type checks, sent with a language
\* that is not supported
C19_UnsupportedLanguageRejected ==
    /\ resp.content = "A"
    /\ resp.filename = "a.wav"
    /\ resp.magic_ok
    /\ resp.language \notin SupportedLanguages
    /\ resp.status = 400
    /\ resp.asr_calls = 0

\* C20: validate_file_size rejects every size above MAX_FILE_SIZE with 413
\* "File too large" and size 0 with 400 "Empty file uploaded", and lets every
\* size from 1 to MAX_FILE_SIZE through.
C20_FileSizeLimits ==
    resp.endpoint # "-" =>
        LET file_size == SizeOf(resp.content)
        IN  /\ file_size > 104857600 =>
                   resp.status = 413 /\ resp.detail = "File too large"
            /\ file_size = 0 =>
                   resp.status = 400 /\ resp.detail = "Empty file uploaded"
            /\ file_size >= 1 /\ file_size <= 104857600 =>
                   /\ resp.status # 413
                   /\ resp.detail \notin {"File too large", "Empty file uploaded"}

\* a file of exactly MAX_FILE_SIZE bytes was transcribed
C20_LargestFileAccepted ==
    /\ SizeOf(resp.content) = MAX_FILE_SIZE
    /\ resp.status = 200


(***************************************************************************)
(* Startup: one run of load_model or of download_model (SpecLoad).         *)
(***************************************************************************)
LoadInit ==
    /\ ModuleCache
    /\ ThreadsIdle
    /\ AsrIdle
    /\ ApiIdle
    /\ OthersIdle
    /\ fn \in Functions
    /\ load_pc = "pipeline"
    /\ attempt = 0
    /\ retry_delay = FirstDelay(fn)
    /\ slept = << >>
    /\ errors = << >>
    /\ model_loaded = FALSE

LoadFrame == UNCHANGED <<cacheVars, concVars, asrVars, apiVars, otherVars, fn>>

\* ASRInferencePipeline(model_card=MODEL_CARD): it loads, or its error ends
\* the startup
LoadPipeline(ok) ==
    /\ load_pc = "pipeline"
    /\ load_pc' = IF ok THEN "vad" ELSE "pipeline_failed"
    /\ UNCHANGED <<attempt, retry_delay, slept, errors, model_loaded>>
    /\ LoadFrame

\* torch.hub.load returns: break, and load_model sets model_loaded
HubLoadReturns ==
    /\ load_pc = "vad"
    /\ load_pc' = "loaded"
    /\ model_loaded' = (fn = "load_model")
    /\ UNCHANGED <<attempt, retry_delay, slept, errors>>
    /\ LoadFrame

\* torch.hub.load raises
HubLoadRaises(message) ==
    /\ load_pc = "vad"
    /\ errors' = Append(errors, message)
    /\ IF OnError(message, attempt) = "retry"
       THEN /\ slept' = Append(slept, retry_delay)
            /\ retry_delay' = NextDelay(retry_delay)
            /\ attempt' = attempt + 1
            /\ UNCHANGED load_pc
       ELSE /\ load_pc' = IF OnError(message, attempt) = "fatal"
                          THEN "fatal" ELSE "raised"
            /\ UNCHANGED <<slept, retry_delay, attempt>>
    /\ UNCHANGED model_loaded
    /\ LoadFrame

LoadNext ==
    \/ \E ok \in BOOLEAN : LoadPipeline(ok)
    \/ HubLoadReturns
    \/ \E message \in ErrorMessages : HubLoadRaises(message)

SpecLoad == LoadInit /\ [][LoadNext]_vars

\* every call of the startup returns or raises in the end
SpecLoadFair == SpecLoad /\ WF_vars(LoadNext)

\* C17: the acquisition of the VAD model is retried only after a rate-limit
\* error with attempts remaining, each retry after one wait; any other error
\* on an attempt that is not the last ends the startup at once, with no
\* further attempt and no wait.
C17_RetryOnlyOnRateLimit ==
    /\ Len(slept) = attempt
    /\ attempt <= max_retries - 1
    /\ \A i \in 1..attempt : IsRateLimit(errors[i])
    /\ load_pc = "vad" => Len(errors) = attempt
    /\ load_pc = "raised" =>
           /\ Len(errors) = attempt + 1
           /\ ~IsRateLimit(errors[Len(errors)])
           /\ attempt < max_retries - 1
    /\ /\ errors # << >>
       /\ ~IsRateLimit(errors[Len(errors)])
       /\ Len(errors) < max_retries
       => load_pc = "raised" /\ Len(slept) = Len(errors) - 1

\* after one rate-limit error and one wait, an error of another kind ended
\* the startup
C17_OtherErrorAbortsAfterRetry ==
    /\ load_pc = "raised"
    /\ attempt = 1
    /\ Len(slept) = 1
    /\ IsRateLimit(errors[1])
    /\ ~IsRateLimit(errors[2])

\* C18 as corrected: the acquisition always ends, after at most 3 attempts;
\* the waits are 30 s then 60 s in load_model and 60 s then 120 s in
\* download_model; it ends with the model loaded, with a fatal error after the
\* third failed attempt, or at once with the error of an earlier attempt that
\* was no rate-limit error; model_loaded is true only after a load succeeded.
C18_AcquisitionEnds ==
    /\ [](/\ Len(errors) <= max_retries
          /\ load_pc = "loaded" => Len(errors) <= max_retries - 1
          /\ slept \in { << >>, <<FirstDelay(fn)>>,
                         <<FirstDelay(fn), 2 * FirstDelay(fn)>> }
          /\ FirstDelay(fn) = IF fn = "load_model" THEN 30 ELSE 60
          /\ model_loaded => load_pc = "loaded"
          /\ load_pc = "fatal" => Len(errors) = max_retries
          /\ load_pc = "raised" =>
                 /\ Len(errors) < max_retries
                 /\ ~IsRateLimit(errors[Len(errors)]))
    /\ <>(load_pc \in {"loaded", "fatal", "raised", "pipeline_failed"})

\* load_model gave up after three rate-limit errors, having waited 30 s and 60 s
C18_FatalAfterThirdAttempt ==
    /\ fn = "load_model"
    /\ load_pc = "fatal"
    /\ Len(errors) = 3
    /\ slept = <<30, 60>>
    /\ ~model_loaded

\* C18: the acquisition of the VAD model ends either with the model loaded or
\* with a fatal error raised after the third failed attempt.
C18_EndsLoadedOrAfterThirdAttempt ==
    load_pc \in {"loaded", "fatal", "raised"} =>
        \/ load_pc = "loaded"
        \/ Len(errors) = max_retries

(***************************************************************************)
(* Authentication: calls of verify_api_key under one environment           *)
(* (SpecAuth).                                                             *)
(***************************************************************************)
\* the module is imported under some value of API_KEYS
AuthInit ==
    /\ ModuleCache
    /\ ThreadsIdle
    /\ AsrIdle
    /\ ApiIdle
    /\ StartupDone
    /\ KeyIdle
    /\ MetricsIdle
    /\ LangIdle
    /\ API_KEYS \in { ApiKeys(env) : env \in EnvValues }
    /\ auth = NoAuth

\* a request comes with header x_api_key and verify_api_key runs on it
VerifyApiKeyCall(x_api_key) ==
    /\ auth' = [x_api_key |-> x_api_key, out |-> VerifyApiKey(API_KEYS, x_api_key)]
    /\ UNCHANGED <<API_KEYS, cacheVars, concVars, asrVars, apiVars, loadVars,
                   metricsVars, langVars, keyVars>>

AuthNext == \E x_api_key \in ApiKeyHeaders : VerifyApiKeyCall(x_api_key)

SpecAuth == AuthInit /\ [][AuthNext]_vars

\* C21: verify_api_key allows every request when no API key is configured (no
\* non-empty key in API_KEYS); when keys are configured it rejects a request
\* without a key with 401, rejects a key that is not in the configured set with
\* 403, and accepts only a key that is in the set; an empty key is never
\* accepted then, also when the empty string is in API_KEYS.
C21_VerifyApiKey ==
    auth # NoAuth =>
        IF API_KEYS \ {""} = {}
        THEN auth.out = Passed
        ELSE IF auth.x_api_key = None
             THEN auth.out.status = 401
             ELSE IF auth.x_api_key = ""
                  THEN auth.out # Passed /\ auth.out.status = 401
                  ELSE IF auth.x_api_key \in API_KEYS
                       THEN auth.out = Passed
                       ELSE auth.out.status = 403

\* API_KEYS came from "a," and holds the empty string next to a key: a request
\* with an empty X-API-Key was rejected
C21_EmptyKeyRejected ==
    /\ API_KEYS = {"a", ""}
    /\ auth.x_api_key = ""
    /\ auth.out.status = 401

(***************************************************************************)
(* Calls on the one MetricsCollector, one at a time (SpecMetrics).  The    *)
(* queries only read, so a run is followed up to its first query.          *)
(***************************************************************************)
\* what a call leaves in mcall: its name, its arguments and what it returned
MetricsCall(op, arg, ret_) == [op |-> op, arg |-> arg, ret |-> ret_]

MetricsInit ==
    /\ ModuleCache
    /\ ThreadsIdle
    /\ AsrIdle
    /\ ApiIdle
    /\ StartupDone
    /\ KeyIdle
    /\ AuthIdle
    /\ LangIdle
    /\ MetricsIdle

\* the number of records the collector holds
TotalRecords ==
    Len(RecordsOf(metrics, "transcriptions")) + Len(RecordsOf(metrics, "requests"))
        + Len(RecordsOf(metrics, "errors"))

\* no query was made yet
Recording == mcall.op \notin {"get_summary", "get_recent_metrics"}

MetricsFrame ==
    UNCHANGED <<mth, cacheVars, concVars, asrVars, apiVars, loadVars, authVars,
                langVars, keyVars>>

\* record_transcription, record_request or record_error, run without
\* interruption
Record(call) ==
    /\ Recording
    /\ TotalRecords < MaxRecords
    /\ metrics' = AppendRecord(metrics, KindOf(call), call.metric)
    /\ counters' = IncrementAll(counters, CounterNames(call))
    /\ mcall' = MetricsCall(call.op, call.metric, << >>)
    /\ MetricsFrame

\* MetricsCollector.record_transcription
RecordTranscription ==
    \E call \in RecordCalls(now) : call.op = "record_transcription" /\ Record(call)

\* MetricsCollector.record_request
RecordRequest ==
    \E call \in RecordCalls(now) : call.op = "record_request" /\ Record(call)

\* MetricsCollector.record_error
RecordError ==
    \E call \in RecordCalls(now) : call.op = "record_error" /\ Record(call)

\* MetricsCollector.get_summary
GetSummary ==
    /\ Recording
    /\ mcall' = MetricsCall("get_summary", << >>, Summary(metrics, counters))
    /\ UNCHANGED <<metrics, counters>>
    /\ MetricsFrame

\* MetricsCollector.get_recent_metrics
GetRecentMetrics(metric_type, limit) ==
    /\ Recording
    /\ mcall' = MetricsCall("get_recent_metrics",
                            [metric_type |-> metric_type, limit |-> limit],
                            RecentMetrics(metrics, metric_type, limit))
    /\ UNCHANGED <<metrics, counters>>
    /\ MetricsFrame

\* MetricsCollector.reset
Reset ==
    /\ Recording
    /\ metrics' = << >>
    /\ counters' = << >>
    /\ mcall' = MetricsCall("reset", << >>, << >>)
    /\ MetricsFrame

MetricsNext ==
    \/ RecordTranscription
    \/ RecordRequest
    \/ RecordError
    \/ GetSummary
    \/ \E metric_type \in MetricTypes, limit \in Limits :
          GetRecentMetrics(metric_type, limit)
    \/ Reset

SpecMetrics == MetricsInit /\ [][MetricsNext]_vars

\* C22: each record_transcription call, for every mode string, appends exactly
\* one transcription record and increments transcriptions_{mode} by one and
\* exactly one of transcriptions_success / transcriptions_failed by one
\* (success when success is true, failed otherwise), and leaves the request
\* and error records and every other counter unchanged.
C22_RecordTranscriptionEffect ==
    [][ mcall'.op = "record_transcription" =>
          LET by_mode == "transcriptions_" \o mcall'.arg.mode
              outcome == IF mcall'.arg.success THEN "transcriptions_success"
                         ELSE "transcriptions_failed"
              other == IF mcall'.arg.success THEN "transcriptions_failed"
                       ELSE "transcriptions_success"
          IN  /\ RecordsOf(metrics', "transcriptions")
                    = Append(RecordsOf(metrics, "transcriptions"), mcall'.arg)
              /\ RecordsOf(metrics', "requests") = RecordsOf(metrics, "requests")
              /\ RecordsOf(metrics', "errors") = RecordsOf(metrics, "errors")
              /\ CounterOf(counters', by_mode) = CounterOf(counters, by_mode) + 1
              /\ CounterOf(counters', outcome) = CounterOf(counters, outcome) + 1
              /\ CounterOf(counters', other) = CounterOf(counters, other)
              /\ \A n \in (DOMAIN counters \cup DOMAIN counters') \ {by_mode, outcome} :
                    CounterOf(counters', n) = CounterOf(counters, n) ]_vars

\* C23: get_summary computes the averages of processing_time, audio_duration
\* and rtf over the successful transcription records only (rounded to 3, 2 and
\* 3 decimals), reports 0 for all three when there is no successful record,
\* and counts failed records too in total_transcriptions.
C23_AveragesOverSuccessfulOnly ==
    mcall.op = "get_summary" =>
        LET transcriptions == RecordsOf(metrics, "transcriptions")
            successful == SelectSeq(transcriptions, LAMBDA t : t.success)
            n == Len(successful)
            averages == mcall.ret.averages
            Abs(x) == IF x < 0 THEN -x ELSE x
        IN  /\ mcall.ret.total_transcriptions = Len(transcriptions)
            /\ IF n = 0
               THEN /\ averages.processing_time = 0
                    /\ averages.audio_duration = 0
                    /\ averages.real_time_factor = 0
               ELSE /\ 2 * Abs(averages.processing_time * n
                                - SumOf(successful, "processing_time")) <= n
                    /\ averages.audio_duration % 10 = 0
                    /\ 2 * Abs(averages.audio_duration * n
                                - SumOf(successful, "audio_duration")) <= 10 * n
                    /\ 2 * Abs(averages.real_time_factor * n
                                - SumOf(successful, "rtf")) <= n

\* a summary over two successful records of different durations and one
\* failed record: the averages are those of the two
C23_TwoSuccessfulOneFailed ==
    /\ mcall.op = "get_summary"
    /\ mcall.ret.total_transcriptions = 3
    /\ Len(SelectSeq(metrics["transcriptions"], LAMBDA t : t.success)) = 2
    /\ ~metrics["transcriptions"][3].success
    /\ metrics["transcriptions"][3].processing_time = 1500
    /\ mcall.ret.averages =
          [processing_time |-> 1250, audio_duration |-> 500, real_time_factor |-> 750]

\* C24: get_recent_metrics(kind, limit) returns exactly the last limit records
\* of that kind (all of them when fewer exist, none for an unknown kind), in
\* oldest-to-newest order, for every limit >= 0.
C24_RecentIsTheLastLimitRecords ==
    mcall.op = "get_recent_metrics" =>
        LET records == IF mcall.arg.metric_type \in DOMAIN metrics
                       THEN metrics[mcall.arg.metric_type] ELSE << >>
            n == Len(records)
            k == IF mcall.arg.limit < n THEN mcall.arg.limit ELSE n
        IN  /\ Len(mcall.ret) = k
            /\ \A i \in 1..k : mcall.ret[i] = records[n - k + i]

(***************************************************************************)
(* Two handler threads, each in one record_* call on the shared collector  *)
(* (SpecMetricsConc).  The collector has no lock: list.append is one step, *)
(* self.counters[name] += 1 is a read of the counter followed by a store   *)
(* of the value read plus one, and another thread may run in between.      *)
(***************************************************************************)
\* each thread has been handed its call and has built its metric
MetricsConcInit ==
    /\ ModuleCache
    /\ ThreadsIdle
    /\ AsrIdle
    /\ ApiIdle
    /\ StartupDone
    /\ KeyIdle
    /\ AuthIdle
    /\ LangIdle
    /\ metrics = << >>
    /\ counters = << >>
    /\ mcall = NoMetricsCall
    /\ mth \in [Threads -> { [pc |-> "append", call |-> call, next |-> 1, read |-> 0] :
                               call \in RecordCalls(now) }]

MetricsConcFrame ==
    UNCHANGED <<mcall, cacheVars, concVars, asrVars, apiVars, loadVars, authVars,
                langVars, keyVars>>

\* self.metrics[kind].append(metric)
AppendStep(t) ==
    /\ mth[t].pc = "append"
    /\ metrics' = AppendRecord(metrics, KindOf(mth[t].call), mth[t].call.metric)
    /\ mth' = [mth EXCEPT ![t].pc = "read"]
    /\ UNCHANGED counters
    /\ MetricsConcFrame

\* self.counters[name] += 1, the read
ReadStep(t) ==
    /\ mth[t].pc = "read"
    /\ mth' = [mth EXCEPT ![t].pc = "store",
                          ![t].read = CounterOf(counters,
                                                CounterNames(mth[t].call)[mth[t].next])]
    /\ UNCHANGED <<metrics, counters>>
    /\ MetricsConcFrame

\* self.counters[name] += 1, the store; then the next counter or the return
StoreStep(t) ==
    /\ mth[t].pc = "store"
    /\ counters' = StoreCounter(counters, CounterNames(mth[t].call)[mth[t].next],
                                mth[t].read + 1)
    /\ mth' = [mth EXCEPT ![t].pc = IF mth[t].next < Len(CounterNames(mth[t].call))
                                    THEN "read" ELSE "done",
                          ![t].next = mth[t].next + 1]
    /\ UNCHANGED metrics
    /\ MetricsConcFrame

MetricsConcNext ==
    \E t \in Threads : AppendStep(t) \/ ReadStep(t) \/ StoreStep(t)

SpecMetricsConc == MetricsConcInit /\ [][MetricsConcNext]_vars

LangInit ==
    /\ cache = << >>
    /\ max_size = TranscriptionCacheMaxSize
    /\ ttl = TranscriptionCacheTtl
    /\ hits = 0
    /\ misses = 0
    /\ now = 1
    /\ ret = NoCall
    /\ recency = << >>
    /\ live = [k \in CacheKeys |-> NoEntry]
    /\ ThreadsIdle
    /\ AsrIdle
    /\ ApiIdle
    /\ StartupDone
    /\ KeyIdle
    /\ AuthIdle
    /\ MetricsIdle
    /\ language_cache \in { NewLanguageCache(ttl_) : ttl_ \in 0..MaxTime }
    /\ lcall = NoLanguageCall

LangFrame ==
    UNCHANGED <<cache, max_size, ttl, hits, misses, ret, recency, live, concVars,
                asrVars, apiVars, loadVars, authVars, metricsVars, keyVars>>

\* LanguageCache.get
LanguageCacheGet ==
    LET r == LanguageGet(language_cache, now)
    IN  /\ language_cache' = r.cache
        /\ lcall' = LanguageCall("get", r.value)
        /\ UNCHANGED now
        /\ LangFrame

\* LanguageCache.set
LanguageCacheSet(languages) ==
    /\ language_cache' = LanguageSet(language_cache, languages, now)
    /\ lcall' = LanguageCall("set", languages)
    /\ UNCHANGED now
    /\ LangFrame

\* LanguageCache.clear
LanguageCacheClear ==
    /\ language_cache' = LanguageClear(language_cache)
    /\ lcall' = LanguageCall("clear", NoLanguages)
    /\ UNCHANGED now
    /\ LangFrame

\* the clock advances between two calls
LangTick ==
    /\ now < MaxTime + 2
    /\ now' = now + 1
    /\ lcall' = NoLanguageCall
    /\ UNCHANGED language_cache
    /\ LangFrame

LangNext ==
    \/ LanguageCacheGet
    \/ \E languages \in LanguageLists : LanguageCacheSet(languages)
    \/ LanguageCacheClear
    \/ LangTick

SpecLang == LangInit /\ [][LangNext]_vars

\* C27: LanguageCache.get returns the stored list whenever one is present and
\* its age is at most ttl (an empty list included) and leaves the slot as it
\* is; in every other case it returns absent and leaves the slot empty, with
\* list and timestamp both cleared; set stores its list over any prior one
\* with the time of the call.
C27_LanguageCacheGetAndSet ==
    [][ /\ lcall'.op = "get" =>
              IF /\ language_cache.languages # NoLanguages
                 /\ now - language_cache.timestamp <= language_cache.ttl
              THEN /\ lcall'.value = language_cache.languages
                   /\ language_cache' = language_cache
              ELSE /\ lcall'.value = NoLanguages
                   /\ language_cache'.languages = NoLanguages
                   /\ language_cache'.timestamp = NoTimestamp
        /\ lcall'.op = "set" =>
              /\ language_cache'.languages = lcall'.value
              /\ language_cache'.timestamp = now
              /\ language_cache'.ttl = language_cache.ttl ]_vars

\* a get has returned a stored empty list at the last instant of its ttl
C27_EmptyListHitAtTtl ==
    /\ lcall.op = "get"
    /\ lcall.value = << >>
    /\ language_cache.languages = << >>
    /\ language_cache.ttl = 1
    /\ now - language_cache.timestamp = language_cache.ttl


(***************************************************************************)
(* The temporary files of transcribe and transcribe_large, under SpecAsr.  *)
(***************************************************************************)
\* C35: on every exit path of transcribe and transcribe_large (success,
\* fallback, decode error, engine error, or an error while writing a chunk)
\* every temporary file the request created, the main upload copy and each
\* chunk file, has been deleted when the call returns or raises.
C35_NoTemporaryFileLeft ==
    asrOut # NoOutcome => asrOut.files_left = 0

(***************************************************************************)
(* The file type check and the request ids of the endpoints, under SpecApi.*)
(***************************************************************************)
\* C36: validate_file_type rejects with HTTP 400 every upload whose detected
\* MIME type is not in ALLOWED_MIME_TYPES, whatever its filename, so that such
\* a request is answered 400 before the model class is called; the extension
\* check is used only when MIME detection itself fails.
C36_DisallowedMimeRejected ==
    (/\ resp.endpoint # "-"
     /\ ValidateFileSize(SizeOf(resp.content)) = Passed
     /\ resp.magic_ok) =>
        IF MimeOf(resp.content) \notin ALLOWED_MIME_TYPES
        THEN /\ ValidateFileType(MimeOf(resp.content), resp.magic_ok,
                                 resp.filename).status = 400
             /\ resp.status = 400
             /\ resp.raised = "-"
        ELSE resp.detail # "Invalid file extension"

\* C39: generate_request_id gives every request a unique id: two distinct
\* requests, also two uploads of the same content, never receive the same
\* request_id (here: a request and the one served right after it).
C39_RequestIdsAreUnique ==
    [][ (resp.endpoint # "-" /\ requests' = requests + 1) =>
            resp'.request_id # resp.request_id ]_vars

(***************************************************************************)
(* One TranscriptionCache called with any strings: a result is stored for  *)
(* one request and then asked for with another (SpecKey).                  *)
(***************************************************************************)
KeyInit ==
    /\ ModuleCache
    /\ ThreadsIdle
    /\ AsrIdle
    /\ ApiIdle
    /\ StartupDone
    /\ AuthIdle
    /\ MetricsIdle
    /\ LangIdle
    /\ lookup \in { Lookup("start", s, a, << >>, None) : s, a \in KeyRequests }

\* TranscriptionCache.set(audio_bytes, language, mode, result)
TranscriptionSet ==
    /\ lookup.pc = "start"
    /\ lookup' =
          [lookup EXCEPT
             !.pc = "stored",
             !.dict = SetResult(lookup.dict,
                                GenerateKey(lookup.stored[1], lookup.stored[2],
                                            lookup.stored[3]),
                                "r1", 0, TranscriptionCacheMaxSize).cache]
    /\ UNCHANGED <<cacheVars, concVars, asrVars, apiVars, loadVars, authVars, metricsVars, langVars>>

\* TranscriptionCache.get(audio_bytes, language, mode)
TranscriptionGet ==
    /\ lookup.pc = "stored"
    /\ lookup' =
          [lookup EXCEPT
             !.pc = "read",
             !.got = GetResult(lookup.dict,
                               GenerateKey(lookup.asked[1], lookup.asked[2],
                                           lookup.asked[3]),
                               0, TranscriptionCacheTtl).value]
    /\ UNCHANGED <<cacheVars, concVars, asrVars, apiVars, loadVars, authVars, metricsVars, langVars>>

KeyNext == TranscriptionSet \/ TranscriptionGet

SpecKey == KeyInit /\ [][KeyNext]_vars

\* C37: two requests for the same audio bytes that differ in language or in
\* mode never share a cache key, whatever strings the language and the mode
\* are, so a result cached for one language or mode is never returned for
\* another.
C37_OtherLanguageOrModeNeverHits ==
    (/\ lookup.pc = "read"
     /\ lookup.stored[1] = lookup.asked[1]
     /\ <<lookup.stored[2], lookup.stored[3]>> # <<lookup.asked[2], lookup.asked[3]>>)
    => /\ GenerateKey(lookup.stored[1], lookup.stored[2], lookup.stored[3])
             # GenerateKey(lookup.asked[1], lookup.asked[2], lookup.asked[3])
       /\ lookup.got = None

====
